---- MODULE Spec2Model ----
(***************************************************************************)
(* A model of the Diffie-Hellman key exchange demonstration:               *)
(*   dh_params.py          the primitives (catalog, key pair, shared       *)
(*                         secret, KDF, XOR cipher, brute-force adversary) *)
(*   dhke_secure.py        the direct Alice/Bob session                    *)
(*   dhke_mitm.py          the Alice/Eve/Bob man-in-the-middle session     *)
(*                                                                         *)
(* Python values are modelled as follows.  A str is the sequence of its    *)
(* code points, a bytes object the sequence of its bytes (0..255).  The    *)
(* result of a call that may raise, or return None, is a record            *)
(* [t |-> "ok" | "None" | <exception name>, v |-> value].                  *)
(***************************************************************************)
EXTENDS Integers, Sequences, FiniteSets, TLC

VARIABLES prim, bf, alice, bob, eve, net, ghost

vars == <<prim, bf, alice, bob, eve, net, ghost>>

(***************************************************************************)
(* Bounds of the model.                                                    *)
(***************************************************************************)
\* largest modulus the primitive harness draws
MaxP == 9
\* longest message (in code points) the cipher harness draws
MaxMsgLen == 3
\* largest value of the entropy source (os.urandom) a key generation draws
MaxRand == 1
\* longest key the cipher harness draws
MaxKeyLen == 2
\* largest explicit attempt bound a caller passes to the adversary
MaxAttempts == 2
\* most messages a role types in one chat before it types 'quit'
MaxChat == 2

\* the library functions are also applied to integers down to -MaxNeg
MaxNeg == 2

\* the random draws handed to generate_private_key range over 0..MaxDraw
MaxDraw == 12

\* the shared secrets handed to derive_key range over 0..MaxSecret
MaxSecret == 12

(***************************************************************************)
(* Results of calls.                                                       *)
(***************************************************************************)
Ret(v) == [t |-> "ok", v |-> v]

None == [t |-> "None", v |-> 0]

Raise(e) == [t |-> e, v |-> 0]

IsOk(r) == r.t = "ok"

(***************************************************************************)
(* Sequence helpers.                                                       *)
(***************************************************************************)
RECURSIVE Flatten(_)
Flatten(ss) == IF ss = <<>> THEN <<>> ELSE Head(ss) \o Flatten(Tail(ss))

SeqsUpTo(S, n) == UNION {[1..k -> S] : k \in 0..n}

(***************************************************************************)
(* Python's three-argument pow for a non-negative exponent: square and     *)
(* multiply; a zero modulus raises ValueError, modulus 1 gives 0, and a    *)
(* negative modulus m gives the residue of (m, 0].                         *)
(***************************************************************************)
RECURSIVE ModExp(_, _, _)
ModExp(b, e, m) ==
    IF e = 0 THEN 1 % m
    ELSE LET h == ModExp(b, e \div 2, m)
             sq == (h * h) % m
         IN IF e % 2 = 1 THEN (sq * (b % m)) % m ELSE sq

pow(b, e, m) ==
    IF m = 0 THEN Raise("ValueError")
    ELSE IF m < 0
         THEN LET r == ModExp(b, e, 0 - m) IN Ret(IF r = 0 THEN 0 ELSE r + m)
    ELSE Ret(ModExp(b, e, m))

(***************************************************************************)
(* Python values that may be an int or a str (the bit_length argument).    *)
(***************************************************************************)
PyInt(n) == [ty |-> "int", n |-> n, s |-> <<>>]

PyStr(s) == [ty |-> "str", n |-> 0, s |-> s]

\* the str "weak"
WEAK_LABEL == <<119, 101, 97, 107>>

(***************************************************************************)
(* dh_params.py: the catalog.  The RFC 3526 primes of 1024 and 2048 bits   *)
(* are beyond TLC's integers: the safe primes 7 and 11 stand for them      *)
(* (generator 2, as in the code).  The toy set is the code's own.          *)
(***************************************************************************)
PRIME_2048 == 11

PRIME_1024 == 7

PRIME_WEAK == 23

GENERATOR == 2

get_dh_params_weakgen(bit_length) ==
    IF bit_length = PyInt(2048) THEN Ret(<<PRIME_2048, GENERATOR>>)
    ELSE IF bit_length = PyInt(1024) THEN Ret(<<PRIME_1024, GENERATOR>>)
    ELSE IF bit_length = PyStr(WEAK_LABEL) THEN Ret(<<PRIME_WEAK, PRIME_WEAK - 1>>)
    ELSE Raise("ValueError")

get_dh_params(bit_length) ==
    IF bit_length = PyInt(2048) THEN Ret(<<PRIME_2048, GENERATOR>>)
    ELSE IF bit_length = PyInt(1024) THEN Ret(<<PRIME_1024, GENERATOR>>)
    ELSE IF bit_length = PyStr(WEAK_LABEL) THEN Ret(<<PRIME_WEAK, 5>>)
    ELSE Raise("ValueError")

\* random.randint(a, b) for the draw r: an integer of [a, b]
randint(a, b, r) == IF a > b THEN Raise("ValueError") ELSE Ret(a + (r % (b - a + 1)))

generate_private_key_noshift(p, secure, r) ==
    IF secure THEN r % (p - 2) ELSE randint(0, p - 2, r).v

\* secure: the random bits r (int.from_bytes(os.urandom(32))) reduced modulo
\* p-2, plus 1; otherwise random.randint(1, p-2)
generate_private_key(p, secure, r) ==
    IF secure THEN (r % (p - 2)) + 1 ELSE randint(1, p - 2, r).v

compute_public_key_swapped(g, private_key, p) == pow(private_key, g, p)

compute_public_key(g, private_key, p) == pow(g, private_key, p)

compute_shared_secret_offbyone(public_key, private_key, p) ==
    pow(public_key, private_key + 1, p)

compute_shared_secret(public_key, private_key, p) == pow(public_key, private_key, p)

validate_params_lax(p, g) ==
    IF p < 2 THEN Raise("ValueError:prime")
    ELSE IF g < 2 \/ g >= p THEN Raise("ValueError:generator")
    ELSE Ret(TRUE)

validate_params(p, g) ==
    IF p < 2 THEN Raise("ValueError:prime")
    ELSE IF g < 2 \/ g >= p - 1 THEN Raise("ValueError:generator")
    ELSE Ret(TRUE)

(***************************************************************************)
(* str(n) and int(s) for non-negative integers: decimal digits.            *)
(***************************************************************************)
RECURSIVE Str(_)
Str(n) == IF n < 10 THEN <<48 + n>> ELSE Append(Str(n \div 10), 48 + (n % 10))

IsDigits(s) == s # <<>> /\ \A i \in 1..Len(s) : s[i] \in 48..57

RECURSIVE DigitsValue(_)
DigitsValue(s) ==
    IF s = <<>> THEN 0 ELSE 10 * DigitsValue(SubSeq(s, 1, Len(s) - 1)) + (s[Len(s)] - 48)

ParseInt(s) == IF IsDigits(s) THEN Ret(DigitsValue(s)) ELSE Raise("ValueError")

(***************************************************************************)
(* str.encode('utf-8') and bytes.decode('utf-8') (strict).                 *)
(***************************************************************************)
IsSurrogate(cp) == cp >= 55296 /\ cp <= 57343

EncodeChar(cp) ==
    IF cp < 128 THEN <<cp>>
    ELSE IF cp < 2048 THEN <<192 + (cp \div 64), 128 + (cp % 64)>>
    ELSE IF cp < 65536
         THEN <<224 + (cp \div 4096), 128 + ((cp \div 64) % 64), 128 + (cp % 64)>>
    ELSE <<240 + (cp \div 262144), 128 + ((cp \div 4096) % 64),
           128 + ((cp \div 64) % 64), 128 + (cp % 64)>>

encode_utf8(s) ==
    IF \E i \in 1..Len(s) : IsSurrogate(s[i]) THEN Raise("UnicodeEncodeError")
    ELSE Ret(Flatten([i \in 1..Len(s) |-> EncodeChar(s[i])]))

IsCont(b) == b >= 128 /\ b <= 191

\* the code points of a byte sequence, or <<-1>> at the first invalid byte
RECURSIVE DecodeFrom(_, _)
DecodeFrom(bs, i) ==
    IF i > Len(bs) THEN <<>>
    ELSE LET b == bs[i]
             n == Len(bs)
             c(k) == bs[i + k] - 128
         IN IF b < 128 THEN <<b>> \o DecodeFrom(bs, i + 1)
            ELSE IF b >= 194 /\ b <= 223 /\ i + 1 <= n /\ IsCont(bs[i + 1])
                 THEN <<(b - 192) * 64 + c(1)>> \o DecodeFrom(bs, i + 2)
            ELSE IF b >= 224 /\ b <= 239 /\ i + 2 <= n
                    /\ IsCont(bs[i + 1]) /\ IsCont(bs[i + 2])
                    /\ (b - 224) * 4096 + c(1) * 64 + c(2) >= 2048
                    /\ ~IsSurrogate((b - 224) * 4096 + c(1) * 64 + c(2))
                 THEN <<(b - 224) * 4096 + c(1) * 64 + c(2)>> \o DecodeFrom(bs, i + 3)
            ELSE IF b >= 240 /\ b <= 244 /\ i + 3 <= n
                    /\ IsCont(bs[i + 1]) /\ IsCont(bs[i + 2]) /\ IsCont(bs[i + 3])
                    /\ (b - 240) * 262144 + c(1) * 4096 + c(2) * 64 + c(3) >= 65536
                    /\ (b - 240) * 262144 + c(1) * 4096 + c(2) * 64 + c(3) <= 1114111
                 THEN <<(b - 240) * 262144 + c(1) * 4096 + c(2) * 64 + c(3)>>
                      \o DecodeFrom(bs, i + 4)
            ELSE <<-1>>

decode_utf8(bs) ==
    LET cps == DecodeFrom(bs, 1)
    IN IF cps # <<>> /\ cps[Len(cps)] = -1 THEN Raise("UnicodeDecodeError") ELSE Ret(cps)

(***************************************************************************)
(* The ^ operator on bytes.                                                *)
(***************************************************************************)
RECURSIVE Xor(_, _)
Xor(a, b) ==
    IF a = 0 THEN b
    ELSE IF b = 0 THEN a
    ELSE (((a % 2) + (b % 2)) % 2) + 2 * Xor(a \div 2, b \div 2)

(***************************************************************************)
(* bytes.hex() and bytes.fromhex(): two hexadecimal digits per byte.       *)
(***************************************************************************)
HexDigit(n) == IF n < 10 THEN 48 + n ELSE 87 + n

hex(bs) == Flatten([i \in 1..Len(bs) |-> <<HexDigit(bs[i] \div 16), HexDigit(bs[i] % 16)>>])

IsHexDigit(c) == c \in 48..57 \/ c \in 97..102 \/ c \in 65..70

HexValue(c) == IF c \in 48..57 THEN c - 48 ELSE IF c \in 97..102 THEN c - 87 ELSE c - 55

fromhex(s) ==
    IF Len(s) % 2 = 1 \/ \E i \in 1..Len(s) : ~IsHexDigit(s[i]) THEN Raise("ValueError")
    ELSE Ret([i \in 1..(Len(s) \div 2) |-> 16 * HexValue(s[2 * i - 1]) + HexValue(s[2 * i])])

(***************************************************************************)
(* hashlib.sha256(...).digest(): 32 bytes.  SHA-256 itself is replaced by  *)
(* a polynomial hash of the input bytes spread over the 32 output bytes.   *)
(***************************************************************************)
DIGEST_SIZE == 32

RECURSIVE PolyHash(_, _)
PolyHash(bs, h) == IF bs = <<>> THEN h ELSE PolyHash(Tail(bs), (h * 131 + Head(bs)) % 65521)

\* the 32 output bytes for the hash value h
Spread[h \in 0..65520] ==
    [i \in 1..DIGEST_SIZE |-> (h * (2 * i + 1) + 97 * i + (h \div 251)) % 256]

sha256(bs) == Spread[PolyHash(bs, 7)]

derive_key_constant(shared_secret) == sha256(<<48>>)

derive_key(shared_secret) == sha256(encode_utf8(Str(shared_secret)).v)

(***************************************************************************)
(* dh_params.py: the XOR cipher.  key[i % len(key)] with an empty key is   *)
(* a ZeroDivisionError as soon as there is a byte to encrypt.              *)
(***************************************************************************)
XorBytes(bs, key) == [i \in 1..Len(bs) |-> Xor(bs[i], key[((i - 1) % Len(key)) + 1])]

XorBytesNoCycle(bs, key) ==
    [i \in 1..Len(bs) |-> IF i <= Len(key) THEN Xor(bs[i], key[i]) ELSE bs[i]]

simple_encrypt_nocycle(message, key) ==
    LET mb == encode_utf8(message)
    IN IF ~IsOk(mb) THEN mb
       ELSE IF mb.v # <<>> /\ key = <<>> THEN Raise("ZeroDivisionError")
       ELSE Ret(XorBytesNoCycle(mb.v, key))

simple_encrypt_keyoffset(message, key) ==
    LET mb == encode_utf8(message)
    IN IF ~IsOk(mb) THEN mb
       ELSE IF mb.v # <<>> /\ key = <<>> THEN Raise("ZeroDivisionError")
       ELSE Ret([i \in 1..Len(mb.v) |-> Xor(mb.v[i], key[(i % Len(key)) + 1])])

simple_encrypt(message, key) ==
    LET mb == encode_utf8(message)
    IN IF ~IsOk(mb) THEN mb
       ELSE IF mb.v # <<>> /\ key = <<>> THEN Raise("ZeroDivisionError")
       ELSE Ret(XorBytes(mb.v, key))

\* decrypted.decode('latin-1'): every byte becomes a character
simple_decrypt_lossy(encrypted_message, key) ==
    IF encrypted_message # <<>> /\ key = <<>> THEN Raise("ZeroDivisionError")
    ELSE Ret(XorBytes(encrypted_message, key))

simple_decrypt(encrypted_message, key) ==
    IF encrypted_message # <<>> /\ key = <<>> THEN Raise("ZeroDivisionError")
    ELSE decode_utf8(XorBytes(encrypted_message, key))

(***************************************************************************)
(* The state of a component that a specification does not run.             *)
(***************************************************************************)
Idle == [pc |-> "idle"]

(***************************************************************************)
(* The primitives, applied to drawn inputs.                                *)
(*   agree:  validate_params, then the four exponentiations of an exchange *)
(*   cipher: simple_encrypt, then simple_decrypt of its result             *)
(***************************************************************************)
\* code points of 1, 2, 3 and 4 UTF-8 bytes: 'h', e-acute, a CJK character, an emoji
Chars == {104, 233, 30701, 128512}

KeyBytes == {0, 1, 170, 255}

InitPrim ==
    /\ \/ \E p \in 0..MaxP, g \in 0..MaxP :
             prim = [fn |-> "agree", pc |-> "input", p |-> p, g |-> g]
       \/ \E m \in SeqsUpTo(Chars, MaxMsgLen), k \in SeqsUpTo(KeyBytes, MaxKeyLen) \ {<<>>} :
             prim = [fn |-> "cipher", pc |-> "input", m |-> m, k |-> k]
    /\ bf = Idle /\ alice = Idle /\ bob = Idle /\ eve = Idle /\ net = Idle /\ ghost = Idle

PrimValidate ==
    /\ prim.fn = "agree" /\ prim.pc = "input"
    /\ prim' = [fn |-> "agree", pc |-> "validated", p |-> prim.p, g |-> prim.g,
                 valid |-> validate_params(prim.p, prim.g)]
    /\ UNCHANGED <<bf, alice, bob, eve, net, ghost>>

PrimExchange ==
    /\ prim.fn = "agree" /\ prim.pc = "validated" /\ IsOk(prim.valid)
    /\ \E a \in 1..(prim.p - 2), b \in 1..(prim.p - 2) :
         LET A == compute_public_key(prim.g, a, prim.p).v
             B == compute_public_key(prim.g, b, prim.p).v
         IN prim' = [fn |-> "agree", pc |-> "exchanged", p |-> prim.p, g |-> prim.g,
                     a |-> a, b |-> b, A |-> A, B |-> B,
                     alice_shared |-> compute_shared_secret(B, a, prim.p).v,
                     bob_shared |-> compute_shared_secret(A, b, prim.p).v]
    /\ UNCHANGED <<bf, alice, bob, eve, net, ghost>>

PrimEncrypt ==
    /\ prim.fn = "cipher" /\ prim.pc = "input"
    /\ prim' = [fn |-> "cipher", pc |-> "encrypted", m |-> prim.m, k |-> prim.k,
                 encrypted |-> simple_encrypt(prim.m, prim.k)]
    /\ UNCHANGED <<bf, alice, bob, eve, net, ghost>>

PrimDecrypt ==
    /\ prim.fn = "cipher" /\ prim.pc = "encrypted" /\ IsOk(prim.encrypted)
    /\ prim' = [fn |-> "cipher", pc |-> "decrypted", m |-> prim.m, k |-> prim.k,
                 encrypted |-> prim.encrypted,
                 decrypted |-> simple_decrypt(prim.encrypted.v, prim.k)]
    /\ UNCHANGED <<bf, alice, bob, eve, net, ghost>>

NextPrim == PrimValidate \/ PrimExchange \/ PrimEncrypt \/ PrimDecrypt

SpecPrim == InitPrim /\ [][NextPrim]_vars

(***************************************************************************)
(* Properties of the primitives (SpecPrim).                                *)
(***************************************************************************)
\* C1: agreement. For every (p, g) that passes validate_params and all private
\* exponents a, b in [1, p-2], the secret computed from B = g^b with a equals
\* the secret computed from A = g^a with b.
C1_Agreement ==
    (prim.fn = "agree" /\ prim.pc = "exchanged") => prim.alice_shared = prim.bob_shared

C1_Witness ==
    /\ prim.fn = "agree" /\ prim.pc = "exchanged"
    /\ prim.a # prim.b /\ prim.A # prim.B /\ prim.alice_shared > 1
    /\ prim.alice_shared = prim.bob_shared

\* C5: cipher involution. For every text m (characters of 1 to 4 UTF-8 bytes,
\* messages longer than the key) and every non-empty key k, simple_encrypt
\* succeeds and simple_decrypt of its result with k returns m.
C5_CipherInvolution ==
    /\ (prim.fn = "cipher" /\ prim.pc = "encrypted") => IsOk(prim.encrypted)
    /\ (prim.fn = "cipher" /\ prim.pc = "decrypted") =>
          (IsOk(prim.decrypted) /\ prim.decrypted.v = prim.m)

C5_Witness ==
    /\ prim.fn = "cipher" /\ prim.pc = "decrypted"
    /\ Len(prim.m) = 3 /\ \E i \in 1..3 : prim.m[i] > 127
    /\ Len(prim.encrypted.v) > 2 * Len(prim.k)
    /\ prim.encrypted.v # encode_utf8(prim.m).v
    /\ IsOk(prim.decrypted) /\ prim.decrypted.v = prim.m

\* bit j of the byte n
Bit(n, j) == (n \div (2 ^ j)) % 2

\* C19: the cipher-text of simple_encrypt has exactly as many bytes as the
\* UTF-8 encoding of the message, and byte i (counted from 0) is plaintext
\* byte i XOR key byte (i mod len(key)): the key repeats cyclically.
C19_CipherBytes ==
    (prim.fn = "cipher" /\ prim.pc \in {"encrypted", "decrypted"}) =>
        LET pt == encode_utf8(prim.m).v
            ct == prim.encrypted.v
        IN /\ IsOk(prim.encrypted)
           /\ Len(ct) = Len(pt)
           /\ \A n \in 0..(Len(pt) - 1), j \in 0..7 :
                 Bit(ct[n + 1], j) =
                     (Bit(pt[n + 1], j) + Bit(prim.k[(n % Len(prim.k)) + 1], j)) % 2

C19_Witness ==
    /\ prim.fn = "cipher" /\ prim.pc = "encrypted"
    /\ Len(prim.k) = 2 /\ prim.k[1] # prim.k[2] /\ prim.k[1] # 0
    /\ Len(prim.encrypted.v) >= 5
    /\ prim.encrypted.v[5] = Xor(encode_utf8(prim.m).v[5], prim.k[1])
    /\ prim.encrypted.v[5] # encode_utf8(prim.m).v[5]

(***************************************************************************)
(* dh_params.py: brute_force_discrete_log(g, public_key, p), one action    *)
(* per iteration of its loop.  The function has the three positional       *)
(* parameters only: a call that passes max_attempts (kw > 0) raises        *)
(* TypeError before the body runs.  tried is the history of the exponents  *)
(* tested so far; priv is the exponent the target was derived from (0 for  *)
(* an arbitrary target).                                                   *)
(***************************************************************************)
BFCallState(g, y, p, kw, priv) ==
    [pc |-> "call", g |-> g, public_key |-> y, p |-> p, kw |-> kw, priv |-> priv,
     x |-> 0, tried |-> <<>>, result |-> None]

InitBF ==
    /\ \/ \E p \in 1..MaxP, g \in 0..MaxP, y \in 0..MaxP, kw \in 0..MaxAttempts :
             bf = BFCallState(g, y, p, kw, 0)
       \/ \E priv \in 1..(PRIME_WEAK - 2), kw \in 0..MaxAttempts :
             LET pg == get_dh_params(PyStr(WEAK_LABEL)).v
             IN bf = BFCallState(pg[2], compute_public_key(pg[2], priv, pg[1]).v,
                                 pg[1], kw, priv)
    /\ prim = Idle /\ alice = Idle /\ bob = Idle /\ eve = Idle /\ net = Idle /\ ghost = Idle

BFCall ==
    /\ bf.pc = "call"
    /\ bf' = IF bf.kw # 0
             THEN [bf EXCEPT !.pc = "raised", !.result = Raise("TypeError")]
             ELSE [bf EXCEPT !.pc = "loop", !.x = 1]
    /\ UNCHANGED <<prim, alice, bob, eve, net, ghost>>

BFStep_skipfirst ==
    /\ bf.pc = "loop" /\ bf.x < bf.p
    /\ bf' = IF bf.x > 1 /\ pow(bf.g, bf.x, bf.p).v = bf.public_key
             THEN [bf EXCEPT !.pc = "returned", !.result = Ret(bf.x),
                             !.tried = Append(bf.tried, bf.x)]
             ELSE [bf EXCEPT !.x = bf.x + 1, !.tried = Append(bf.tried, bf.x)]
    /\ UNCHANGED <<prim, alice, bob, eve, net, ghost>>

BFStep ==
    /\ bf.pc = "loop" /\ bf.x < bf.p
    /\ bf' = IF pow(bf.g, bf.x, bf.p).v = bf.public_key
             THEN [bf EXCEPT !.pc = "returned", !.result = Ret(bf.x),
                             !.tried = Append(bf.tried, bf.x)]
             ELSE [bf EXCEPT !.x = bf.x + 1, !.tried = Append(bf.tried, bf.x)]
    /\ UNCHANGED <<prim, alice, bob, eve, net, ghost>>

BFExhausted_raises ==
    /\ bf.pc = "loop" /\ bf.x >= bf.p
    /\ bf' = [bf EXCEPT !.pc = "raised", !.result = Raise("ValueError")]
    /\ UNCHANGED <<prim, alice, bob, eve, net, ghost>>

BFExhausted ==
    /\ bf.pc = "loop" /\ bf.x >= bf.p
    /\ bf' = [bf EXCEPT !.pc = "returned", !.result = None]
    /\ UNCHANGED <<prim, alice, bob, eve, net, ghost>>

NextBF == BFCall \/ BFStep \/ BFExhausted

SpecBF == InitBF /\ [][NextBF]_vars

(***************************************************************************)
(* Properties of the brute-force adversary (SpecBF).                       *)
(***************************************************************************)
\* the exponents of [1, p-1] that solve the instance
BFSolutions == {x \in 1..(bf.p - 1) : pow(bf.g, x, bf.p).v = bf.public_key}

BFEnded == bf.pc \in {"returned", "raised"}

\* C7: on the toy set (p = 23, g = 5), for every private exponent x in [1, 21],
\* the search for the public value 5^x mod 23 returns x.
C7_ToyBruteForce ==
    (bf.priv # 0 /\ bf.kw = 0 /\ BFEnded) => bf.result = Ret(bf.priv)

C7_Witness ==
    /\ bf.priv = 17 /\ bf.p = 23 /\ bf.g = 5 /\ bf.kw = 0
    /\ bf.pc = "returned" /\ bf.result = Ret(17)

\* C8: the search tests the exponents 1, 2, 3, ... in increasing order and,
\* when some x in [1, p-1] has g^x mod p = public_key, returns the smallest.
C8_FirstMatch ==
    bf.kw = 0 =>
        /\ bf.tried = [i \in 1..Len(bf.tried) |-> i]
        /\ (bf.pc = "loop" => bf.x = Len(bf.tried) + 1)
        /\ (BFEnded /\ BFSolutions # {}) =>
               /\ bf.result.t = "ok"
               /\ bf.result.v \in BFSolutions
               /\ \A x \in BFSolutions : bf.result.v <= x

C8_Witness ==
    /\ bf.kw = 0 /\ bf.pc = "returned" /\ bf.result.t = "ok"
    /\ Cardinality(BFSolutions) > 1 /\ bf.result.v > 1
    /\ Len(bf.tried) = bf.result.v

\* C9: when no exponent of [1, p-1] solves the instance, the search ends by
\* returning None, after testing all p-1 exponents, and raises nothing.
C9_ExhaustionIsNone ==
    (bf.kw = 0 /\ BFSolutions = {}) =>
        /\ bf.pc # "raised"
        /\ bf.pc = "returned" => (bf.result = None /\ Len(bf.tried) = bf.p - 1)

C9_Witness ==
    /\ bf.kw = 0 /\ bf.pc = "returned" /\ bf.result = None
    /\ bf.p > 3 /\ bf.g > 1 /\ bf.public_key < bf.p /\ Len(bf.tried) = bf.p - 1

\* C10: called with max_attempts = n, the search tests at most n exponents and
\* returns None when none of them matches.
C10_AttemptBound ==
    (bf.kw # 0 /\ BFEnded) =>
        /\ bf.pc = "returned"
        /\ Len(bf.tried) <= bf.kw
        /\ (\A x \in BFSolutions : x > bf.kw) => bf.result = None

(***************************************************************************)
(* The transport.  A TCP stream is the sequence of the frames sent on it   *)
(* and not yet received; a frame is one send: a JSON object (its key set   *)
(* kind and its string values f) and whether a newline follows it.         *)
(*   listening: the roles whose server socket listens                      *)
(*   conn:      the established connections                                *)
(*   closed:    the roles whose process has ended or closed its sockets    *)
(***************************************************************************)
Roles == {"alice", "bob", "eve"}

Chans == {"a2b", "b2a", "a2e", "e2a", "e2b", "b2e"}

InitNet == [listening |-> {}, conn |-> {}, q |-> [c \in Chans |-> <<>>], closed |-> {}]

InitGhost ==
    [typed |-> [r \in Roles |-> <<>>], shown |-> [r \in Roles |-> <<>>], wire |-> {},
     relayed |-> <<>>]

\* json.dumps(obj) + '\n'
Frame(kind, f) == [kind |-> kind, f |-> f, nl |-> TRUE]

\* sock.send(data): the frame joins the stream (a closed peer never reads it)
Send(n, c, fr) == [n EXCEPT !.q[c] = Append(@, fr)]

Closed(n, r) == [n EXCEPT !.closed = @ \cup {r}]

Sent(gh, r, fr) == [gh EXCEPT !.wire = @ \cup {[from |-> r, frame |-> fr]}]

\* the index of the first frame that ends a line, or 0
FirstNl(q) ==
    IF \E i \in 1..Len(q) : q[i].nl
    THEN CHOOSE i \in 1..Len(q) : q[i].nl /\ \A j \in 1..(i - 1) : ~q[j].nl
    ELSE 0

\* recv_msg blocks until a newline arrives or the peer closes
CanRecvMsg(c, peer) == FirstNl(net.q[c]) > 0 \/ peer \in net.closed

\* recv_msg(sock): the bytes up to the first newline, or None at end of stream
recv_msg_data(q) == IF FirstNl(q) > 0 THEN Ret(SubSeq(q, 1, FirstNl(q))) ELSE None

recv_msg_rest(q) == IF FirstNl(q) > 0 THEN SubSeq(q, FirstNl(q) + 1, Len(q)) ELSE <<>>

\* json.loads(data)[kind]: data must be one JSON object, with that key
json_loads(frames, kind) ==
    IF Len(frames) # 1 THEN Raise("JSONDecodeError")
    ELSE IF frames[1].kind # kind THEN Raise("KeyError")
    ELSE Ret(frames[1].f)

(***************************************************************************)
(* Console input.                                                          *)
(***************************************************************************)
\* the menu answers '1'..'4', and 5 for any other line
Choices == 1..5

\* bits_map.get(choice, 1024)
bits_map_get(choice) ==
    IF choice = 1 THEN 23 ELSE IF choice = 2 THEN 512
    ELSE IF choice = 4 THEN 2048 ELSE 1024

QUIT == <<81, 85, 73, 84>>

quit == <<113, 117, 105, 116>>

\* the lines a user types: nothing, a blank, 'quit', 'Quit', 'hi', 'hi ', e-acute
Lines == {<<>>, <<32>>, quit, <<81, 117, 105, 116>>, <<104, 105>>, <<104, 105, 32>>, <<233>>}

\* the code points below 256 that str.strip() removes
Whitespace == {9, 10, 11, 12, 13, 28, 29, 30, 31, 32, 133, 160}

RECURSIVE strip(_)
strip(s) ==
    IF s = <<>> THEN s
    ELSE IF Head(s) \in Whitespace THEN strip(Tail(s))
    ELSE IF s[Len(s)] \in Whitespace THEN strip(SubSeq(s, 1, Len(s) - 1))
    ELSE s

lower(s) == [i \in 1..Len(s) |-> IF s[i] \in 65..90 THEN s[i] + 32 ELSE s[i]]

NoneInt == -1

NoneBytes == <<>>

(***************************************************************************)
(* What a role does with one received chat line (both sessions): parse the *)
(* JSON, stop at the QUIT sentinel, else hex-decode and decrypt.           *)
(*   [t |-> "ok", v |-> plaintext] | [t |-> "QUIT"] | an exception         *)
(***************************************************************************)
recv_chat(frames, key) ==
    LET j == json_loads(frames, "encrypted_message")
    IN IF ~IsOk(j) THEN j
       ELSE IF j.v[1] = QUIT THEN [t |-> "QUIT", v |-> 0]
       ELSE LET b == fromhex(j.v[1])
            IN IF ~IsOk(b) THEN b ELSE simple_decrypt(b.v, key)

\* json.dumps({'encrypted_message': simple_encrypt(message, key).hex()}) + '\n'
ChatFrame(message, key) == Frame("encrypted_message", <<hex(simple_encrypt(message, key).v)>>)

QuitFrame == Frame("encrypted_message", <<QUIT>>)

KeyFrame(public_key) == Frame("public_key", <<Str(public_key)>>)

ParamsFrame(p, g, bits) == Frame("params", <<Str(p), Str(g), Str(bits)>>)

\* a line that is a chat message: not empty, not 'quit'; at most MaxChat per role
IsMessage(message) == message # <<>> /\ lower(message) # quit

MayType(r, message) == IsMessage(message) => Len(ghost.typed[r]) < MaxChat

Typed(gh, r, message) == [gh EXCEPT !.typed[r] = Append(@, message)]

Shown(gh, r, text) == [gh EXCEPT !.shown[r] = Append(@, text)]

\* what Eve did with a message she received: sent text on, or sent nothing
Relayed(gh, text) == [gh EXCEPT !.relayed = Append(@, [dropped |-> FALSE, text |-> text])]

Withheld(gh) == [gh EXCEPT !.relayed = Append(@, [dropped |-> TRUE, text |-> <<>>])]

(***************************************************************************)
(* dhke_secure.py: Alice.                                                  *)
(***************************************************************************)
InitAlice ==
    [pc |-> "select_parameters", bits |-> NoneInt, p |-> NoneInt, g |-> NoneInt,
     private_key |-> NoneInt, public_key |-> NoneInt, bob_public_key |-> NoneInt,
     shared_secret |-> NoneInt, aes_key |-> NoneBytes]

SA_select_parameters ==
    /\ alice.pc = "select_parameters"
    /\ \E choice \in Choices :
         LET bits == bits_map_get(choice)
             pg == get_dh_params(PyInt(bits))
         IN IF IsOk(pg)
            THEN /\ alice' = [alice EXCEPT !.bits = bits, !.p = pg.v[1], !.g = pg.v[2],
                                           !.pc = "connect"]
                 /\ net' = net
            ELSE /\ alice' = [alice EXCEPT !.bits = bits, !.pc = "error"]
                 /\ net' = Closed(net, "alice")
    /\ UNCHANGED <<prim, bf, bob, eve, ghost>>

SA_connect ==
    /\ alice.pc = "connect"
    /\ IF "bob" \in net.listening
       THEN /\ alice' = [alice EXCEPT !.pc = "send_parameters"]
            /\ net' = [net EXCEPT !.conn = @ \cup {"ab"}]
       ELSE /\ alice' = [alice EXCEPT !.pc = "exit"]
            /\ net' = Closed(net, "alice")
    /\ UNCHANGED <<prim, bf, bob, eve, ghost>>

SA_send_parameters ==
    /\ alice.pc = "send_parameters"
    /\ LET fr == ParamsFrame(alice.p, alice.g, alice.bits)
       IN /\ net' = Send(net, "a2b", fr)
          /\ ghost' = Sent(ghost, "alice", fr)
    /\ alice' = [alice EXCEPT !.pc = "generate_keys"]
    /\ UNCHANGED <<prim, bf, bob, eve>>

SA_generate_keys ==
    /\ alice.pc = "generate_keys"
    /\ \E r \in 0..MaxRand :
         LET a == generate_private_key(alice.p, TRUE, r)
         IN alice' = [alice EXCEPT !.private_key = a,
                                   !.public_key = compute_public_key(alice.g, a, alice.p).v,
                                   !.pc = "exchange_keys"]
    /\ UNCHANGED <<prim, bf, bob, eve, net, ghost>>

SA_exchange_keys_send_private ==
    /\ alice.pc = "exchange_keys"
    /\ LET fr == KeyFrame(alice.private_key)
       IN /\ net' = Send(net, "a2b", fr)
          /\ ghost' = Sent(ghost, "alice", fr)
    /\ alice' = [alice EXCEPT !.pc = "exchange_keys_recv"]
    /\ UNCHANGED <<prim, bf, bob, eve>>

SA_exchange_keys_send ==
    /\ alice.pc = "exchange_keys"
    /\ LET fr == KeyFrame(alice.public_key)
       IN /\ net' = Send(net, "a2b", fr)
          /\ ghost' = Sent(ghost, "alice", fr)
    /\ alice' = [alice EXCEPT !.pc = "exchange_keys_recv"]
    /\ UNCHANGED <<prim, bf, bob, eve>>

SA_exchange_keys_recv_early ==
    /\ alice.pc = "exchange_keys_recv"
    /\ alice' = [alice EXCEPT !.pc = "compute_secret"]
    /\ UNCHANGED <<prim, bf, bob, eve, net, ghost>>

SA_exchange_keys_recv ==
    /\ alice.pc = "exchange_keys_recv"
    /\ CanRecvMsg("b2a", "bob")
    /\ LET data == recv_msg_data(net.q["b2a"])
           j == json_loads(data.v, "public_key")
           B == ParseInt(j.v[1])
           n1 == [net EXCEPT !.q["b2a"] = recv_msg_rest(@)]
       IN IF data.t = "None"
          THEN alice' = [alice EXCEPT !.pc = "exit"] /\ net' = Closed(n1, "alice")
          ELSE IF ~IsOk(j) \/ ~IsOk(B)
          THEN alice' = [alice EXCEPT !.pc = "error"] /\ net' = Closed(n1, "alice")
          ELSE /\ alice' = [alice EXCEPT !.bob_public_key = B.v, !.pc = "compute_secret"]
               /\ net' = n1
    /\ UNCHANGED <<prim, bf, bob, eve, ghost>>

SA_compute_secret ==
    /\ alice.pc = "compute_secret"
    /\ LET s == compute_shared_secret(alice.bob_public_key, alice.private_key, alice.p).v
       IN alice' = [alice EXCEPT !.shared_secret = s, !.aes_key = derive_key(s),
                                 !.pc = "chat_input"]
    /\ UNCHANGED <<prim, bf, bob, eve, net, ghost>>

SA_chat_input ==
    /\ alice.pc = "chat_input"
    /\ \E line \in Lines :
         LET message == strip(line)
         IN /\ MayType("alice", message)
            /\ IF message = <<>>
               THEN UNCHANGED <<alice, net, ghost>>
               ELSE IF lower(message) = quit
               THEN /\ net' = Send(net, "a2b", QuitFrame)
                    /\ ghost' = Sent(ghost, "alice", QuitFrame)
                    /\ alice' = [alice EXCEPT !.pc = "close"]
               ELSE /\ net' = Send(net, "a2b", ChatFrame(message, alice.aes_key))
                    /\ ghost' = Typed(Sent(ghost, "alice", ChatFrame(message, alice.aes_key)),
                                      "alice", message)
                    /\ alice' = [alice EXCEPT !.pc = "chat_recv"]
    /\ UNCHANGED <<prim, bf, bob, eve>>

SA_chat_recv ==
    /\ alice.pc = "chat_recv"
    /\ CanRecvMsg("b2a", "bob")
    /\ LET data == recv_msg_data(net.q["b2a"])
           got == recv_chat(data.v, alice.aes_key)
       IN /\ net' = [net EXCEPT !.q["b2a"] = recv_msg_rest(@)]
          /\ IF data.t # "None" /\ IsOk(got)
             THEN /\ ghost' = Shown(ghost, "alice", got.v)
                  /\ alice' = [alice EXCEPT !.pc = "chat_input"]
             ELSE /\ ghost' = ghost
                  /\ alice' = [alice EXCEPT !.pc = "close"]
    /\ UNCHANGED <<prim, bf, bob, eve>>

SA_close ==
    /\ alice.pc = "close"
    /\ alice' = [alice EXCEPT !.pc = "done"]
    /\ net' = Closed(net, "alice")
    /\ UNCHANGED <<prim, bf, bob, eve, ghost>>

(***************************************************************************)
(* dhke_secure.py: Bob.                                                    *)
(***************************************************************************)
InitBob ==
    [pc |-> "setup_server", bits |-> NoneInt, p |-> NoneInt, g |-> NoneInt,
     private_key |-> NoneInt, public_key |-> NoneInt, alice_public_key |-> NoneInt,
     shared_secret |-> NoneInt, aes_key |-> NoneBytes]

\* setup_server up to listen()
SB_setup_server ==
    /\ bob.pc = "setup_server"
    /\ bob' = [bob EXCEPT !.pc = "accept"]
    /\ net' = [net EXCEPT !.listening = @ \cup {"bob"}]
    /\ UNCHANGED <<prim, bf, alice, eve, ghost>>

\* setup_server: accept() returns once Alice has connected
SB_accept ==
    /\ bob.pc = "accept"
    /\ "ab" \in net.conn
    /\ bob' = [bob EXCEPT !.pc = "receive_parameters"]
    /\ UNCHANGED <<prim, bf, alice, eve, net, ghost>>

SB_receive_parameters ==
    /\ bob.pc = "receive_parameters"
    /\ CanRecvMsg("a2b", "alice")
    /\ LET data == recv_msg_data(net.q["a2b"])
           j == json_loads(data.v, "params")
           n1 == [net EXCEPT !.q["a2b"] = recv_msg_rest(@)]
       IN IF data.t = "None"
          THEN bob' = [bob EXCEPT !.pc = "exit"] /\ net' = Closed(n1, "bob")
          ELSE IF ~IsOk(j) \/ \E i \in 1..3 : ~IsOk(ParseInt(j.v[i]))
          THEN bob' = [bob EXCEPT !.pc = "error"] /\ net' = Closed(n1, "bob")
          ELSE /\ bob' = [bob EXCEPT !.p = ParseInt(j.v[1]).v, !.g = ParseInt(j.v[2]).v,
                                     !.bits = ParseInt(j.v[3]).v, !.pc = "generate_keys"]
               /\ net' = n1
    /\ UNCHANGED <<prim, bf, alice, eve, ghost>>

SB_generate_keys ==
    /\ bob.pc = "generate_keys"
    /\ \E r \in 0..MaxRand :
         LET b == generate_private_key(bob.p, TRUE, r)
         IN bob' = [bob EXCEPT !.private_key = b,
                               !.public_key = compute_public_key(bob.g, b, bob.p).v,
                               !.pc = "exchange_keys"]
    /\ UNCHANGED <<prim, bf, alice, eve, net, ghost>>

SB_exchange_keys ==
    /\ bob.pc = "exchange_keys"
    /\ CanRecvMsg("a2b", "alice")
    /\ LET data == recv_msg_data(net.q["a2b"])
           j == json_loads(data.v, "public_key")
           A == ParseInt(j.v[1])
           n1 == [net EXCEPT !.q["a2b"] = recv_msg_rest(@)]
           fr == KeyFrame(bob.public_key)
       IN IF data.t = "None"
          THEN bob' = [bob EXCEPT !.pc = "exit"] /\ net' = Closed(n1, "bob") /\ ghost' = ghost
          ELSE IF ~IsOk(j) \/ ~IsOk(A)
          THEN bob' = [bob EXCEPT !.pc = "error"] /\ net' = Closed(n1, "bob") /\ ghost' = ghost
          ELSE /\ bob' = [bob EXCEPT !.alice_public_key = A.v, !.pc = "compute_secret"]
               /\ net' = Send(n1, "b2a", fr)
               /\ ghost' = Sent(ghost, "bob", fr)
    /\ UNCHANGED <<prim, bf, alice, eve>>

SB_compute_secret_ownkey ==
    /\ bob.pc = "compute_secret"
    /\ LET s == compute_shared_secret(bob.public_key, bob.private_key, bob.p).v
       IN bob' = [bob EXCEPT !.shared_secret = s, !.aes_key = derive_key(s),
                             !.pc = "chat_recv"]
    /\ UNCHANGED <<prim, bf, alice, eve, net, ghost>>

SB_compute_secret ==
    /\ bob.pc = "compute_secret"
    /\ LET s == compute_shared_secret(bob.alice_public_key, bob.private_key, bob.p).v
       IN bob' = [bob EXCEPT !.shared_secret = s, !.aes_key = derive_key(s),
                             !.pc = "chat_recv"]
    /\ UNCHANGED <<prim, bf, alice, eve, net, ghost>>

SB_chat_recv ==
    /\ bob.pc = "chat_recv"
    /\ CanRecvMsg("a2b", "alice")
    /\ LET data == recv_msg_data(net.q["a2b"])
           got == recv_chat(data.v, bob.aes_key)
       IN /\ net' = [net EXCEPT !.q["a2b"] = recv_msg_rest(@)]
          /\ IF data.t # "None" /\ IsOk(got)
             THEN /\ ghost' = Shown(ghost, "bob", got.v)
                  /\ bob' = [bob EXCEPT !.pc = "chat_input"]
             ELSE /\ ghost' = ghost
                  /\ bob' = [bob EXCEPT !.pc = "close"]
    /\ UNCHANGED <<prim, bf, alice, eve>>

\* an empty line sends nothing and returns to the head of the loop: the receive
SB_chat_input ==
    /\ bob.pc = "chat_input"
    /\ \E line \in Lines :
         LET message == strip(line)
         IN /\ MayType("bob", message)
            /\ IF message = <<>>
               THEN /\ bob' = [bob EXCEPT !.pc = "chat_recv"]
                    /\ UNCHANGED <<net, ghost>>
               ELSE IF lower(message) = quit
               THEN /\ net' = Send(net, "b2a", QuitFrame)
                    /\ ghost' = Sent(ghost, "bob", QuitFrame)
                    /\ bob' = [bob EXCEPT !.pc = "close"]
               ELSE /\ net' = Send(net, "b2a", ChatFrame(message, bob.aes_key))
                    /\ ghost' = Typed(Sent(ghost, "bob", ChatFrame(message, bob.aes_key)),
                                      "bob", message)
                    /\ bob' = [bob EXCEPT !.pc = "chat_recv"]
    /\ UNCHANGED <<prim, bf, alice, eve>>

SB_close_leak ==
    /\ bob.pc = "close"
    /\ bob' = [bob EXCEPT !.pc = "done"]
    /\ UNCHANGED <<prim, bf, alice, eve, net, ghost>>

SB_close ==
    /\ bob.pc = "close"
    /\ bob' = [bob EXCEPT !.pc = "done"]
    /\ net' = Closed(net, "bob")
    /\ UNCHANGED <<prim, bf, alice, eve, ghost>>

InitDirect ==
    /\ alice = InitAlice /\ bob = InitBob /\ eve = Idle
    /\ net = InitNet /\ ghost = InitGhost
    /\ prim = Idle /\ bf = Idle

NextDirect ==
    \/ SA_select_parameters \/ SA_connect \/ SA_send_parameters \/ SA_generate_keys
    \/ SA_exchange_keys_send \/ SA_exchange_keys_recv \/ SA_compute_secret
    \/ SA_chat_input \/ SA_chat_recv \/ SA_close
    \/ SB_setup_server \/ SB_accept \/ SB_receive_parameters \/ SB_generate_keys
    \/ SB_exchange_keys \/ SB_compute_secret \/ SB_chat_recv \/ SB_chat_input \/ SB_close

SpecDirect == InitDirect /\ [][NextDirect]_vars

(***************************************************************************)
(* dhke_mitm.py.  The handshake reads with sock.recv(n), which returns     *)
(* whatever part of the stream has arrived: k = 1 is exactly the next      *)
(* frame, k >= 2 that many frames at once, k = 0 only a part of the next   *)
(* frame (or nothing at all, at end of stream).  json.loads accepts the    *)
(* first outcome only.                                                     *)
(***************************************************************************)
CanRecv(c, peer) == net.q[c] # <<>> \/ peer \in net.closed

RecvSplits(c) == 0..Len(net.q[c])

\* json.loads(sock.recv(n).decode().strip())[kind] for the outcome k
raw_recv(q, k, kind) ==
    IF k = 0 THEN Raise("JSONDecodeError") ELSE json_loads(SubSeq(q, 1, k), kind)

raw_recv_rest(q, k) == SubSeq(q, k + 1, Len(q))

DEFAULT_MESSAGE ==
    <<77, 101, 101, 116, 32, 97, 116, 32, 116, 104, 101, 32, 108, 105, 98, 114, 97, 114, 121>>

(***************************************************************************)
(* dhke_mitm.py: Alice.                                                    *)
(***************************************************************************)
MA_select_parameters ==
    /\ alice.pc = "select_parameters"
    /\ \E choice \in Choices :
         LET bits == bits_map_get(choice)
             pg == get_dh_params(PyInt(bits))
         IN IF IsOk(pg)
            THEN /\ alice' = [alice EXCEPT !.bits = bits, !.p = pg.v[1], !.g = pg.v[2],
                                           !.pc = "connect"]
                 /\ net' = net
            ELSE /\ alice' = [alice EXCEPT !.bits = bits, !.pc = "error"]
                 /\ net' = Closed(net, "alice")
    /\ UNCHANGED <<prim, bf, bob, eve, ghost>>

MA_connect ==
    /\ alice.pc = "connect"
    /\ IF "eve" \in net.listening
       THEN /\ alice' = [alice EXCEPT !.pc = "send_parameters"]
            /\ net' = [net EXCEPT !.conn = @ \cup {"ae"}]
       ELSE /\ alice' = [alice EXCEPT !.pc = "exit"]
            /\ net' = Closed(net, "alice")
    /\ UNCHANGED <<prim, bf, bob, eve, ghost>>

MA_send_parameters ==
    /\ alice.pc = "send_parameters"
    /\ LET fr == ParamsFrame(alice.p, alice.g, alice.bits)
       IN /\ net' = Send(net, "a2e", fr)
          /\ ghost' = Sent(ghost, "alice", fr)
    /\ alice' = [alice EXCEPT !.pc = "generate_keys"]
    /\ UNCHANGED <<prim, bf, bob, eve>>

MA_generate_keys ==
    /\ alice.pc = "generate_keys"
    /\ \E r \in 0..MaxRand :
         LET a == generate_private_key(alice.p, TRUE, r)
         IN alice' = [alice EXCEPT !.private_key = a,
                                   !.public_key = compute_public_key(alice.g, a, alice.p).v,
                                   !.pc = "exchange_keys"]
    /\ UNCHANGED <<prim, bf, bob, eve, net, ghost>>

MA_exchange_keys_send ==
    /\ alice.pc = "exchange_keys"
    /\ LET fr == KeyFrame(alice.public_key)
       IN /\ net' = Send(net, "a2e", fr)
          /\ ghost' = Sent(ghost, "alice", fr)
    /\ alice' = [alice EXCEPT !.pc = "exchange_keys_recv"]
    /\ UNCHANGED <<prim, bf, bob, eve>>

MA_exchange_keys_recv ==
    /\ alice.pc = "exchange_keys_recv"
    /\ CanRecv("e2a", "eve")
    /\ \E k \in RecvSplits("e2a") :
         LET j == raw_recv(net.q["e2a"], k, "public_key")
             B == ParseInt(j.v[1])
             n1 == [net EXCEPT !.q["e2a"] = raw_recv_rest(@, k)]
         IN IF ~IsOk(j) \/ ~IsOk(B)
            THEN alice' = [alice EXCEPT !.pc = "error"] /\ net' = Closed(n1, "alice")
            ELSE /\ alice' = [alice EXCEPT !.bob_public_key = B.v, !.pc = "compute_secret"]
                 /\ net' = n1
    /\ UNCHANGED <<prim, bf, bob, eve, ghost>>

MA_compute_secret ==
    /\ alice.pc = "compute_secret"
    /\ LET s == compute_shared_secret(alice.bob_public_key, alice.private_key, alice.p).v
       IN alice' = [alice EXCEPT !.shared_secret = s, !.aes_key = derive_key(s),
                                 !.pc = "first_message"]
    /\ UNCHANGED <<prim, bf, bob, eve, net, ghost>>

\* the first message: an empty line becomes the default text; 'quit' is a text
MA_first_message ==
    /\ alice.pc = "first_message"
    /\ \E line \in Lines :
         LET message == IF strip(line) = <<>> THEN DEFAULT_MESSAGE ELSE strip(line)
             fr == ChatFrame(message, alice.aes_key)
         IN /\ net' = Send(net, "a2e", fr)
            /\ ghost' = Typed(Sent(ghost, "alice", fr), "alice", message)
    /\ alice' = [alice EXCEPT !.pc = "chat_recv"]
    /\ UNCHANGED <<prim, bf, bob, eve>>

MA_chat_recv ==
    /\ alice.pc = "chat_recv"
    /\ CanRecvMsg("e2a", "eve")
    /\ LET data == recv_msg_data(net.q["e2a"])
           got == recv_chat(data.v, alice.aes_key)
       IN /\ net' = [net EXCEPT !.q["e2a"] = recv_msg_rest(@)]
          /\ IF data.t # "None" /\ IsOk(got)
             THEN /\ ghost' = Shown(ghost, "alice", got.v)
                  /\ alice' = [alice EXCEPT !.pc = "chat_input"]
             ELSE /\ ghost' = ghost
                  /\ alice' = [alice EXCEPT !.pc = "close"]
    /\ UNCHANGED <<prim, bf, bob, eve>>

\* an empty line sends nothing and returns to the head of the loop: the receive
MA_chat_input ==
    /\ alice.pc = "chat_input"
    /\ \E line \in Lines :
         LET message == strip(line)
         IN /\ MayType("alice", message)
            /\ IF message = <<>>
               THEN /\ alice' = [alice EXCEPT !.pc = "chat_recv"]
                    /\ UNCHANGED <<net, ghost>>
               ELSE IF lower(message) = quit
               THEN /\ net' = Send(net, "a2e", QuitFrame)
                    /\ ghost' = Sent(ghost, "alice", QuitFrame)
                    /\ alice' = [alice EXCEPT !.pc = "close"]
               ELSE /\ net' = Send(net, "a2e", ChatFrame(message, alice.aes_key))
                    /\ ghost' = Typed(Sent(ghost, "alice", ChatFrame(message, alice.aes_key)),
                                      "alice", message)
                    /\ alice' = [alice EXCEPT !.pc = "chat_recv"]
    /\ UNCHANGED <<prim, bf, bob, eve>>

MA_close ==
    /\ alice.pc = "close"
    /\ alice' = [alice EXCEPT !.pc = "done"]
    /\ net' = Closed(net, "alice")
    /\ UNCHANGED <<prim, bf, bob, eve, ghost>>

(***************************************************************************)
(* dhke_mitm.py: Bob.                                                      *)
(***************************************************************************)
MB_setup_server ==
    /\ bob.pc = "setup_server"
    /\ bob' = [bob EXCEPT !.pc = "accept"]
    /\ net' = [net EXCEPT !.listening = @ \cup {"bob"}]
    /\ UNCHANGED <<prim, bf, alice, eve, ghost>>

MB_accept ==
    /\ bob.pc = "accept"
    /\ "eb" \in net.conn
    /\ bob' = [bob EXCEPT !.pc = "receive_parameters"]
    /\ UNCHANGED <<prim, bf, alice, eve, net, ghost>>

MB_receive_parameters ==
    /\ bob.pc = "receive_parameters"
    /\ CanRecv("e2b", "eve")
    /\ \E k \in RecvSplits("e2b") :
         LET j == raw_recv(net.q["e2b"], k, "params")
             n1 == [net EXCEPT !.q["e2b"] = raw_recv_rest(@, k)]
         IN IF ~IsOk(j) \/ \E i \in 1..3 : ~IsOk(ParseInt(j.v[i]))
            THEN bob' = [bob EXCEPT !.pc = "error"] /\ net' = Closed(n1, "bob")
            ELSE /\ bob' = [bob EXCEPT !.p = ParseInt(j.v[1]).v, !.g = ParseInt(j.v[2]).v,
                                       !.bits = ParseInt(j.v[3]).v, !.pc = "generate_keys"]
                 /\ net' = n1
    /\ UNCHANGED <<prim, bf, alice, eve, ghost>>

MB_generate_keys ==
    /\ bob.pc = "generate_keys"
    /\ \E r \in 0..MaxRand :
         LET b == generate_private_key(bob.p, TRUE, r)
         IN bob' = [bob EXCEPT !.private_key = b,
                               !.public_key = compute_public_key(bob.g, b, bob.p).v,
                               !.pc = "exchange_keys"]
    /\ UNCHANGED <<prim, bf, alice, eve, net, ghost>>

MB_exchange_keys ==
    /\ bob.pc = "exchange_keys"
    /\ CanRecv("e2b", "eve")
    /\ \E k \in RecvSplits("e2b") :
         LET j == raw_recv(net.q["e2b"], k, "public_key")
             A == ParseInt(j.v[1])
             n1 == [net EXCEPT !.q["e2b"] = raw_recv_rest(@, k)]
             fr == KeyFrame(bob.public_key)
         IN IF ~IsOk(j) \/ ~IsOk(A)
            THEN /\ bob' = [bob EXCEPT !.pc = "error"]
                 /\ net' = Closed(n1, "bob") /\ ghost' = ghost
            ELSE /\ bob' = [bob EXCEPT !.alice_public_key = A.v, !.pc = "compute_secret"]
                 /\ net' = Send(n1, "b2e", fr)
                 /\ ghost' = Sent(ghost, "bob", fr)
    /\ UNCHANGED <<prim, bf, alice, eve>>

MB_compute_secret_salted ==
    /\ bob.pc = "compute_secret"
    /\ LET s == compute_shared_secret(bob.alice_public_key, bob.private_key, bob.p).v
       IN bob' = [bob EXCEPT !.shared_secret = s,
                             !.aes_key = derive_key(s + bob.private_key),
                             !.pc = "first_message"]
    /\ UNCHANGED <<prim, bf, alice, eve, net, ghost>>

MB_compute_secret ==
    /\ bob.pc = "compute_secret"
    /\ LET s == compute_shared_secret(bob.alice_public_key, bob.private_key, bob.p).v
       IN bob' = [bob EXCEPT !.shared_secret = s, !.aes_key = derive_key(s),
                             !.pc = "first_message"]
    /\ UNCHANGED <<prim, bf, alice, eve, net, ghost>>

\* the first message is read outside any try, and QUIT is not looked for
MB_first_message ==
    /\ bob.pc = "first_message"
    /\ CanRecvMsg("e2b", "eve")
    /\ LET data == recv_msg_data(net.q["e2b"])
           j == json_loads(data.v, "encrypted_message")
           b == fromhex(j.v[1])
           got == simple_decrypt(b.v, bob.aes_key)
           n1 == [net EXCEPT !.q["e2b"] = recv_msg_rest(@)]
       IN IF data.t = "None" \/ ~IsOk(j) \/ ~IsOk(b) \/ ~IsOk(got)
          THEN bob' = [bob EXCEPT !.pc = "error"] /\ net' = Closed(n1, "bob") /\ ghost' = ghost
          ELSE /\ bob' = [bob EXCEPT !.pc = "chat_input"]
               /\ net' = n1
               /\ ghost' = Shown(ghost, "bob", got.v)
    /\ UNCHANGED <<prim, bf, alice, eve>>

\* an empty line asks again
MB_chat_input ==
    /\ bob.pc = "chat_input"
    /\ \E line \in Lines :
         LET reply == strip(line)
         IN /\ MayType("bob", reply)
            /\ IF reply = <<>>
               THEN UNCHANGED <<bob, net, ghost>>
               ELSE IF lower(reply) = quit
               THEN /\ net' = Send(net, "b2e", QuitFrame)
                    /\ ghost' = Sent(ghost, "bob", QuitFrame)
                    /\ bob' = [bob EXCEPT !.pc = "close"]
               ELSE /\ net' = Send(net, "b2e", ChatFrame(reply, bob.aes_key))
                    /\ ghost' = Typed(Sent(ghost, "bob", ChatFrame(reply, bob.aes_key)),
                                      "bob", reply)
                    /\ bob' = [bob EXCEPT !.pc = "chat_recv"]
    /\ UNCHANGED <<prim, bf, alice, eve>>

MB_chat_recv ==
    /\ bob.pc = "chat_recv"
    /\ CanRecvMsg("e2b", "eve")
    /\ LET data == recv_msg_data(net.q["e2b"])
           got == recv_chat(data.v, bob.aes_key)
       IN /\ net' = [net EXCEPT !.q["e2b"] = recv_msg_rest(@)]
          /\ IF data.t # "None" /\ IsOk(got)
             THEN /\ ghost' = Shown(ghost, "bob", got.v)
                  /\ bob' = [bob EXCEPT !.pc = "chat_input"]
             ELSE /\ ghost' = ghost
                  /\ bob' = [bob EXCEPT !.pc = "close"]
    /\ UNCHANGED <<prim, bf, alice, eve>>

MB_close ==
    /\ bob.pc = "close"
    /\ bob' = [bob EXCEPT !.pc = "done"]
    /\ net' = Closed(net, "bob")
    /\ UNCHANGED <<prim, bf, alice, eve, ghost>>

(***************************************************************************)
(* dhke_mitm.py: Eve.                                                      *)
(***************************************************************************)
InitEve ==
    [pc |-> "listen", p |-> NoneInt, g |-> NoneInt, bits |-> NoneInt,
     private_key_alice |-> NoneInt, public_key_alice |-> NoneInt,
     private_key_bob |-> NoneInt, public_key_bob |-> NoneInt,
     alice_public_key |-> NoneInt, bob_public_key |-> NoneInt,
     shared_secret_alice |-> NoneInt, shared_secret_bob |-> NoneInt,
     aes_key_alice |-> NoneBytes, aes_key_bob |-> NoneBytes,
     intercepted_messages |-> <<>>, result |-> "", found |-> NoneInt,
     modified_count |-> 0, dropped_count |-> 0]

\* '[DROPPED]'
DROPPED == <<91, 68, 82, 79, 80, 80, 69, 68, 93>>

\* what Eve types as a replacement text: nothing, or 'no'
Edits == {<<>>, <<110, 111>>}

\* what Eve types as a replacement of the first message: nothing, or '[DROPPED]'
FirstEdits == {<<>>, DROPPED}

LogEntry(direction, original, forwarded) ==
    [direction |-> direction, original |-> original, forwarded |-> forwarded]

ME_listen ==
    /\ eve.pc = "listen"
    /\ eve' = [eve EXCEPT !.pc = "connect_bob"]
    /\ net' = [net EXCEPT !.listening = @ \cup {"eve"}]
    /\ UNCHANGED <<prim, bf, alice, bob, ghost>>

ME_connect_bob ==
    /\ eve.pc = "connect_bob"
    /\ IF "bob" \in net.listening
       THEN /\ eve' = [eve EXCEPT !.pc = "accept"]
            /\ net' = [net EXCEPT !.conn = @ \cup {"eb"}]
       ELSE /\ eve' = [eve EXCEPT !.pc = "exit"]
            /\ net' = Closed(net, "eve")
    /\ UNCHANGED <<prim, bf, alice, bob, ghost>>

ME_accept ==
    /\ eve.pc = "accept"
    /\ "ae" \in net.conn
    /\ eve' = [eve EXCEPT !.pc = "intercept_parameters"]
    /\ UNCHANGED <<prim, bf, alice, bob, net, ghost>>

\* the parameters go on to Bob as read, stripped of their newline
\* the parameters are passed on with another generator
ME_intercept_parameters_regenerated ==
    /\ eve.pc = "intercept_parameters"
    /\ CanRecv("a2e", "alice")
    /\ \E k \in RecvSplits("a2e") :
         LET j == raw_recv(net.q["a2e"], k, "params")
             n1 == [net EXCEPT !.q["a2e"] = raw_recv_rest(@, k)]
             fr == [net.q["a2e"][1] EXCEPT !.nl = FALSE, !.f[2] = Str(ParseInt(@).v + 1)]
         IN IF ~IsOk(j) \/ \E i \in 1..3 : ~IsOk(ParseInt(j.v[i]))
            THEN /\ eve' = [eve EXCEPT !.pc = "error"]
                 /\ net' = Closed(n1, "eve") /\ ghost' = ghost
            ELSE /\ eve' = [eve EXCEPT !.p = ParseInt(j.v[1]).v, !.g = ParseInt(j.v[2]).v,
                                       !.bits = ParseInt(j.v[3]).v, !.pc = "generate_keys"]
                 /\ net' = Send(n1, "e2b", fr)
                 /\ ghost' = Sent(ghost, "eve", fr)
    /\ UNCHANGED <<prim, bf, alice, bob>>

ME_intercept_parameters ==
    /\ eve.pc = "intercept_parameters"
    /\ CanRecv("a2e", "alice")
    /\ \E k \in RecvSplits("a2e") :
         LET j == raw_recv(net.q["a2e"], k, "params")
             n1 == [net EXCEPT !.q["a2e"] = raw_recv_rest(@, k)]
             fr == [net.q["a2e"][1] EXCEPT !.nl = FALSE]
         IN IF ~IsOk(j) \/ \E i \in 1..3 : ~IsOk(ParseInt(j.v[i]))
            THEN /\ eve' = [eve EXCEPT !.pc = "error"]
                 /\ net' = Closed(n1, "eve") /\ ghost' = ghost
            ELSE /\ eve' = [eve EXCEPT !.p = ParseInt(j.v[1]).v, !.g = ParseInt(j.v[2]).v,
                                       !.bits = ParseInt(j.v[3]).v, !.pc = "generate_keys"]
                 /\ net' = Send(n1, "e2b", fr)
                 /\ ghost' = Sent(ghost, "eve", fr)
    /\ UNCHANGED <<prim, bf, alice, bob>>

ME_generate_keys_reused ==
    /\ eve.pc = "generate_keys"
    /\ \E r1 \in 0..MaxRand, r2 \in 0..MaxRand :
         LET e1 == generate_private_key(eve.p, TRUE, r1)
             e2 == generate_private_key(eve.p, TRUE, r2)
         IN eve' = [eve EXCEPT !.private_key_alice = e1,
                               !.public_key_alice = compute_public_key(eve.g, e1, eve.p).v,
                               !.private_key_bob = e2,
                               !.public_key_bob = compute_public_key(eve.g, e1, eve.p).v,
                               !.pc = "intercept_alice_key"]
    /\ UNCHANGED <<prim, bf, alice, bob, net, ghost>>

ME_generate_keys ==
    /\ eve.pc = "generate_keys"
    /\ \E r1 \in 0..MaxRand, r2 \in 0..MaxRand :
         LET e1 == generate_private_key(eve.p, TRUE, r1)
             e2 == generate_private_key(eve.p, TRUE, r2)
         IN eve' = [eve EXCEPT !.private_key_alice = e1,
                               !.public_key_alice = compute_public_key(eve.g, e1, eve.p).v,
                               !.private_key_bob = e2,
                               !.public_key_bob = compute_public_key(eve.g, e2, eve.p).v,
                               !.pc = "intercept_alice_key"]
    /\ UNCHANGED <<prim, bf, alice, bob, net, ghost>>

\* Alice's key is passed on to Bob as it came
ME_intercept_alice_key_forwards ==
    /\ eve.pc = "intercept_alice_key"
    /\ CanRecv("a2e", "alice")
    /\ \E k \in RecvSplits("a2e") :
         LET j == raw_recv(net.q["a2e"], k, "public_key")
             A == ParseInt(j.v[1])
             n1 == [net EXCEPT !.q["a2e"] = raw_recv_rest(@, k)]
         IN IF ~IsOk(j) \/ ~IsOk(A)
            THEN /\ eve' = [eve EXCEPT !.pc = "error"]
                 /\ net' = Closed(n1, "eve") /\ ghost' = ghost
            ELSE /\ eve' = [eve EXCEPT !.alice_public_key = A.v, !.pc = "intercept_bob_key"]
                 /\ net' = Send(n1, "e2b", KeyFrame(A.v))
                 /\ ghost' = Sent(ghost, "eve", KeyFrame(A.v))
    /\ UNCHANGED <<prim, bf, alice, bob>>

\* Alice's key is kept; Bob is sent Eve's second public key in its place
ME_intercept_alice_key ==
    /\ eve.pc = "intercept_alice_key"
    /\ CanRecv("a2e", "alice")
    /\ \E k \in RecvSplits("a2e") :
         LET j == raw_recv(net.q["a2e"], k, "public_key")
             A == ParseInt(j.v[1])
             n1 == [net EXCEPT !.q["a2e"] = raw_recv_rest(@, k)]
             fake_alice == KeyFrame(eve.public_key_bob)
         IN IF ~IsOk(j) \/ ~IsOk(A)
            THEN /\ eve' = [eve EXCEPT !.pc = "error"]
                 /\ net' = Closed(n1, "eve") /\ ghost' = ghost
            ELSE /\ eve' = [eve EXCEPT !.alice_public_key = A.v, !.pc = "intercept_bob_key"]
                 /\ net' = Send(n1, "e2b", fake_alice)
                 /\ ghost' = Sent(ghost, "eve", fake_alice)
    /\ UNCHANGED <<prim, bf, alice, bob>>

\* Bob's key is kept; Alice is sent Eve's first public key in its place
ME_intercept_bob_key ==
    /\ eve.pc = "intercept_bob_key"
    /\ CanRecv("b2e", "bob")
    /\ \E k \in RecvSplits("b2e") :
         LET j == raw_recv(net.q["b2e"], k, "public_key")
             B == ParseInt(j.v[1])
             n1 == [net EXCEPT !.q["b2e"] = raw_recv_rest(@, k)]
             fake_bob == KeyFrame(eve.public_key_alice)
         IN IF ~IsOk(j) \/ ~IsOk(B)
            THEN /\ eve' = [eve EXCEPT !.pc = "error"]
                 /\ net' = Closed(n1, "eve") /\ ghost' = ghost
            ELSE /\ eve' = [eve EXCEPT !.bob_public_key = B.v, !.pc = "compute_secrets"]
                 /\ net' = Send(n1, "e2a", fake_bob)
                 /\ ghost' = Sent(ghost, "eve", fake_bob)
    /\ UNCHANGED <<prim, bf, alice, bob>>

ME_compute_secrets_crossed ==
    /\ eve.pc = "compute_secrets"
    /\ LET s1 == compute_shared_secret(eve.alice_public_key, eve.private_key_bob, eve.p).v
           s2 == compute_shared_secret(eve.bob_public_key, eve.private_key_alice, eve.p).v
       IN eve' = [eve EXCEPT !.shared_secret_alice = s1, !.aes_key_alice = derive_key(s1),
                             !.shared_secret_bob = s2, !.aes_key_bob = derive_key(s2),
                             !.pc = "first_message"]
    /\ UNCHANGED <<prim, bf, alice, bob, net, ghost>>

ME_compute_secrets ==
    /\ eve.pc = "compute_secrets"
    /\ LET s1 == compute_shared_secret(eve.alice_public_key, eve.private_key_alice, eve.p).v
           s2 == compute_shared_secret(eve.bob_public_key, eve.private_key_bob, eve.p).v
       IN eve' = [eve EXCEPT !.shared_secret_alice = s1, !.aes_key_alice = derive_key(s1),
                             !.shared_secret_bob = s2, !.aes_key_bob = derive_key(s2),
                             !.pc = "first_message"]
    /\ UNCHANGED <<prim, bf, alice, bob, net, ghost>>

\* the first message is read outside any try; choice '2' asks for a new text
ME_first_message_keeps ==
    /\ eve.pc = "first_message"
    /\ CanRecvMsg("a2e", "alice")
    /\ LET data == recv_msg_data(net.q["a2e"])
           j == json_loads(data.v, "encrypted_message")
           b == fromhex(j.v[1])
           original_message == simple_decrypt(b.v, eve.aes_key_alice)
           n1 == [net EXCEPT !.q["a2e"] = recv_msg_rest(@)]
       IN IF data.t = "None" \/ ~IsOk(j) \/ ~IsOk(b) \/ ~IsOk(original_message)
          THEN /\ eve' = [eve EXCEPT !.pc = "error"]
               /\ net' = Closed(n1, "eve") /\ ghost' = ghost
          ELSE \E choice \in 1..2, modified \in FirstEdits :
                 LET modified_message ==
                         IF choice = 2 /\ modified # <<>> THEN modified
                         ELSE original_message.v
                     fr == ChatFrame(original_message.v, eve.aes_key_bob)
                 IN /\ eve' = [eve EXCEPT !.intercepted_messages =
                                      Append(@, LogEntry("Alice->Bob", original_message.v,
                                                         modified_message)),
                                          !.pc = "loop_bob"]
                    /\ net' = Send(n1, "e2b", fr)
                    /\ ghost' = Relayed(Sent(ghost, "eve", fr), original_message.v)
    /\ UNCHANGED <<prim, bf, alice, bob>>

ME_first_message ==
    /\ eve.pc = "first_message"
    /\ CanRecvMsg("a2e", "alice")
    /\ LET data == recv_msg_data(net.q["a2e"])
           j == json_loads(data.v, "encrypted_message")
           b == fromhex(j.v[1])
           original_message == simple_decrypt(b.v, eve.aes_key_alice)
           n1 == [net EXCEPT !.q["a2e"] = recv_msg_rest(@)]
       IN IF data.t = "None" \/ ~IsOk(j) \/ ~IsOk(b) \/ ~IsOk(original_message)
          THEN /\ eve' = [eve EXCEPT !.pc = "error"]
               /\ net' = Closed(n1, "eve") /\ ghost' = ghost
          ELSE \E choice \in 1..2, modified \in FirstEdits :
                 LET modified_message ==
                         IF choice = 2 /\ modified # <<>> THEN modified
                         ELSE original_message.v
                     fr == ChatFrame(modified_message, eve.aes_key_bob)
                 IN /\ eve' = [eve EXCEPT !.intercepted_messages =
                                      Append(@, LogEntry("Alice->Bob", original_message.v,
                                                         modified_message)),
                                          !.pc = "loop_bob"]
                    /\ net' = Send(n1, "e2b", fr)
                    /\ ghost' = Relayed(Sent(ghost, "eve", fr), modified_message)
    /\ UNCHANGED <<prim, bf, alice, bob>>

\* Bob's reply is replaced on its way to Alice
ME_loop_bob_rewrites ==
    /\ eve.pc = "loop_bob"
    /\ CanRecvMsg("b2e", "bob")
    /\ LET data == recv_msg_data(net.q["b2e"])
           reply == recv_chat(data.v, eve.aes_key_bob)
           n1 == [net EXCEPT !.q["b2e"] = recv_msg_rest(@)]
       IN IF data.t = "None"
          THEN eve' = [eve EXCEPT !.pc = "analysis"] /\ net' = n1 /\ ghost' = ghost
          ELSE IF reply.t = "QUIT"
          THEN /\ eve' = [eve EXCEPT !.pc = "analysis"]
               /\ net' = Send(n1, "e2a", QuitFrame)
               /\ ghost' = Sent(ghost, "eve", QuitFrame)
          ELSE IF ~IsOk(reply)
          THEN eve' = [eve EXCEPT !.pc = "analysis"] /\ net' = n1 /\ ghost' = ghost
          ELSE LET fr == ChatFrame(<<110, 111>>, eve.aes_key_alice)
               IN /\ eve' = [eve EXCEPT !.intercepted_messages =
                                    Append(@, LogEntry("Bob->Alice", reply.v, reply.v)),
                                        !.pc = "loop_alice"]
                  /\ net' = Send(n1, "e2a", fr)
                  /\ ghost' = Relayed(Sent(ghost, "eve", fr), <<110, 111>>)
    /\ UNCHANGED <<prim, bf, alice, bob>>

\* Bob's reply is read, logged and re-encrypted for Alice unchanged
ME_loop_bob ==
    /\ eve.pc = "loop_bob"
    /\ CanRecvMsg("b2e", "bob")
    /\ LET data == recv_msg_data(net.q["b2e"])
           reply == recv_chat(data.v, eve.aes_key_bob)
           n1 == [net EXCEPT !.q["b2e"] = recv_msg_rest(@)]
       IN IF data.t = "None"
          THEN eve' = [eve EXCEPT !.pc = "analysis"] /\ net' = n1 /\ ghost' = ghost
          ELSE IF reply.t = "QUIT"
          THEN /\ eve' = [eve EXCEPT !.pc = "analysis"]
               /\ net' = Send(n1, "e2a", QuitFrame)
               /\ ghost' = Sent(ghost, "eve", QuitFrame)
          ELSE IF ~IsOk(reply)
          THEN eve' = [eve EXCEPT !.pc = "analysis"] /\ net' = n1 /\ ghost' = ghost
          ELSE LET fr == ChatFrame(reply.v, eve.aes_key_alice)
               IN /\ eve' = [eve EXCEPT !.intercepted_messages =
                                    Append(@, LogEntry("Bob->Alice", reply.v, reply.v)),
                                        !.pc = "loop_alice"]
                  /\ net' = Send(n1, "e2a", fr)
                  /\ ghost' = Relayed(Sent(ghost, "eve", fr), reply.v)
    /\ UNCHANGED <<prim, bf, alice, bob>>

\* Alice's next message: forwarded, replaced or dropped; after a drop the
\* loop starts over, at the wait for Bob's reply
ME_loop_alice ==
    /\ eve.pc = "loop_alice"
    /\ CanRecvMsg("a2e", "alice")
    /\ LET data == recv_msg_data(net.q["a2e"])
           message == recv_chat(data.v, eve.aes_key_alice)
           n1 == [net EXCEPT !.q["a2e"] = recv_msg_rest(@)]
       IN IF data.t = "None"
          THEN eve' = [eve EXCEPT !.pc = "analysis"] /\ net' = n1 /\ ghost' = ghost
          ELSE IF message.t = "QUIT"
          THEN /\ eve' = [eve EXCEPT !.pc = "analysis"]
               /\ net' = Send(n1, "e2b", QuitFrame)
               /\ ghost' = Sent(ghost, "eve", QuitFrame)
          ELSE IF ~IsOk(message)
          THEN eve' = [eve EXCEPT !.pc = "analysis"] /\ net' = n1 /\ ghost' = ghost
          ELSE \E choice \in 1..3, modified \in Edits :
                 IF choice = 3
                 THEN /\ eve' = [eve EXCEPT !.intercepted_messages =
                                        Append(@, LogEntry("Alice->Bob", message.v, DROPPED)),
                                            !.pc = "loop_bob"]
                      /\ net' = n1 /\ ghost' = Withheld(ghost)
                 ELSE LET forward_message ==
                              IF choice = 2 /\ modified # <<>> THEN modified ELSE message.v
                          fr == ChatFrame(forward_message, eve.aes_key_bob)
                      IN /\ eve' = [eve EXCEPT !.intercepted_messages =
                                           Append(@, LogEntry("Alice->Bob", message.v,
                                                              forward_message)),
                                               !.pc = "loop_bob"]
                         /\ net' = Send(n1, "e2b", fr)
                         /\ ghost' = Relayed(Sent(ghost, "eve", fr), forward_message)
    /\ UNCHANGED <<prim, bf, alice, bob>>

\* brute_force_discrete_log called with the keyword arguments kwargs: its
\* parameters are (g, public_key, p), any keyword is a TypeError
brute_force_call(g, public_key, p, kwargs) ==
    IF kwargs # {} THEN Raise("TypeError")
    ELSE LET found == {x \in 1..(p - 1) : pow(g, x, p).v = public_key}
         IN IF found = {} THEN None
            ELSE Ret(CHOOSE x \in found : \A y \in found : x <= y)

\* the branch of the report's loop that an entry of the log takes
counted_as(msg) ==
    IF msg.forwarded = DROPPED THEN "dropped"
    ELSE IF msg.original # msg.forwarded THEN "modified"
    ELSE "unmodified"

\* the report over intercepted_messages: the result line and the two counts
Report(ev) ==
    [ev EXCEPT !.result = "DIFFERENT",
               !.modified_count =
                   Len(SelectSeq(ev.intercepted_messages,
                                 LAMBDA msg : counted_as(msg) = "modified")),
               !.dropped_count =
                   Len(SelectSeq(ev.intercepted_messages,
                                 LAMBDA msg : counted_as(msg) = "dropped"))]

\* the report with the search started whatever the size
ME_analysis_any_size ==
    /\ eve.pc = "analysis"
    /\ LET found == brute_force_call(eve.alice_public_key, eve.g, eve.p, {"max_attempts"})
       IN IF found.t \in {"ok", "None"}
          THEN /\ eve' = [Report(eve) EXCEPT !.pc = "close",
                                     !.found = IF IsOk(found) THEN found.v ELSE NoneInt]
               /\ net' = net
          ELSE /\ eve' = [Report(eve) EXCEPT !.pc = "error"]
               /\ net' = Closed(net, "eve")
    /\ UNCHANGED <<prim, bf, alice, bob, ghost>>

\* the report: the two secrets are printed with the result 'DIFFERENT', not
\* compared; for bits <= 23 it then calls
\* brute_force_discrete_log(alice_public_key, g, p, max_attempts=2**25);
\* an exception leaves run() before the cleanup
ME_analysis ==
    /\ eve.pc = "analysis"
    /\ IF eve.bits <= 23
       THEN LET found == brute_force_call(eve.alice_public_key, eve.g, eve.p,
                                          {"max_attempts"})
            IN IF found.t \in {"ok", "None"}
               THEN /\ eve' = [Report(eve) EXCEPT !.pc = "close",
                                          !.found = IF IsOk(found) THEN found.v ELSE NoneInt]
                    /\ net' = net
               ELSE /\ eve' = [Report(eve) EXCEPT !.pc = "error"]
                    /\ net' = Closed(net, "eve")
       ELSE eve' = [Report(eve) EXCEPT !.pc = "close"] /\ net' = net
    /\ UNCHANGED <<prim, bf, alice, bob, ghost>>

ME_close ==
    /\ eve.pc = "close"
    /\ eve' = [eve EXCEPT !.pc = "done"]
    /\ net' = Closed(net, "eve")
    /\ UNCHANGED <<prim, bf, alice, bob, ghost>>

InitMitm ==
    /\ alice = InitAlice /\ bob = InitBob /\ eve = InitEve
    /\ net = InitNet /\ ghost = InitGhost
    /\ prim = Idle /\ bf = Idle

NextMitm ==
    \/ MA_select_parameters \/ MA_connect \/ MA_send_parameters \/ MA_generate_keys
    \/ MA_exchange_keys_send \/ MA_exchange_keys_recv \/ MA_compute_secret
    \/ MA_first_message \/ MA_chat_recv \/ MA_chat_input \/ MA_close
    \/ MB_setup_server \/ MB_accept \/ MB_receive_parameters \/ MB_generate_keys
    \/ MB_exchange_keys \/ MB_compute_secret \/ MB_first_message \/ MB_chat_input
    \/ MB_chat_recv \/ MB_close
    \/ ME_listen \/ ME_connect_bob \/ ME_accept \/ ME_intercept_parameters
    \/ ME_generate_keys \/ ME_intercept_alice_key \/ ME_intercept_bob_key
    \/ ME_compute_secrets \/ ME_first_message \/ ME_loop_bob \/ ME_loop_alice
    \/ ME_analysis \/ ME_close

SpecMitm == InitMitm /\ [][NextMitm]_vars

(***************************************************************************)
(* Both sessions: a run is a direct session or a three-role session.       *)
(***************************************************************************)
InitSessions == InitDirect \/ InitMitm

NextSessions ==
    \/ eve.pc = "idle" /\ NextDirect
    \/ eve.pc # "idle" /\ NextMitm

SpecSessions == InitSessions /\ [][NextSessions]_vars

(***************************************************************************)
(* Properties of the sessions.                                             *)
(***************************************************************************)
IsPrefix(s, t) == Len(s) <= Len(t) /\ \A i \in 1..Len(s) : s[i] = t[i]

\* C2: end-to-end direct session (SpecDirect). Once Alice and Bob have both
\* finished compute_secret, their shared secrets are equal and so are their
\* derived keys; and the plaintexts a role has displayed are, in order, the
\* messages the other role's user entered (the line read, stripped).
C2_DirectEndToEnd ==
    /\ (alice.shared_secret # NoneInt /\ bob.shared_secret # NoneInt) =>
           /\ alice.shared_secret = bob.shared_secret
           /\ alice.aes_key = bob.aes_key
    /\ IsPrefix(ghost.shown["bob"], ghost.typed["alice"])
    /\ IsPrefix(ghost.shown["alice"], ghost.typed["bob"])

C2_Witness ==
    /\ alice.shared_secret > 1 /\ alice.shared_secret = bob.shared_secret
    /\ alice.private_key # bob.private_key
    /\ Len(alice.aes_key) = DIGEST_SIZE /\ alice.aes_key = bob.aes_key
    /\ ghost.shown["bob"] = <<(<<104, 105>>), (<<233>>)>>
    /\ ghost.shown["alice"] = <<(<<233>>)>>

\* C3: secret splitting (SpecMitm). Whatever four private exponents are
\* drawn, once Eve and Alice have both computed, Eve's Alice-side secret is
\* the secret Alice computed from the key she received; and once Eve and Bob
\* have both computed, Eve's Bob-side secret is the secret Bob computed.
C3_SecretSplitting ==
    /\ (eve.shared_secret_alice # NoneInt /\ alice.shared_secret # NoneInt) =>
           eve.shared_secret_alice = alice.shared_secret
    /\ (eve.shared_secret_bob # NoneInt /\ bob.shared_secret # NoneInt) =>
           eve.shared_secret_bob = bob.shared_secret

C3_Witness ==
    /\ alice.shared_secret # NoneInt /\ bob.shared_secret # NoneInt
    /\ eve.private_key_alice # eve.private_key_bob
    /\ eve.shared_secret_alice = alice.shared_secret
    /\ eve.shared_secret_bob = bob.shared_secret
    /\ alice.shared_secret # bob.shared_secret

\* C4: in a three-role session the secret Alice computes differs from the
\* secret Bob computes, for every choice of the four private exponents; in
\* particular whenever Eve's analysis has reported 'DIFFERENT'.
C4_SecretsDiffer ==
    (alice.shared_secret # NoneInt /\ bob.shared_secret # NoneInt) =>
        alice.shared_secret # bob.shared_secret

\* the chat frames a role may have sent, given what it holds
OwnChatFrames(r) ==
    IF r = "alice" THEN {ChatFrame(m, alice.aes_key) :
                            m \in {ghost.typed["alice"][i] : i \in 1..Len(ghost.typed["alice"])}}
    ELSE IF r = "bob" THEN {ChatFrame(m, bob.aes_key) :
                            m \in {ghost.typed["bob"][i] : i \in 1..Len(ghost.typed["bob"])}}
    ELSE LET log == eve.intercepted_messages
         IN {IF log[i].direction = "Alice->Bob"
             THEN ChatFrame(log[i].forwarded, eve.aes_key_bob)
             ELSE ChatFrame(log[i].forwarded, eve.aes_key_alice) : i \in 1..Len(log)}

\* the public values a role holds as its own
OwnPublicKeys(r) ==
    IF r = "alice" THEN {alice.public_key}
    ELSE IF r = "bob" THEN {bob.public_key}
    ELSE {eve.public_key_alice, eve.public_key_bob}

\* C6: in the direct and in the three-role session, every message a role
\* has put on the transport is one of: the parameters (p, g, bits) Alice
\* chose, with or without the newline; a public value g^x mod p of the
\* sender's own key pair; the cipher-text under the sender's derived key of a
\* message it entered or relays; the QUIT sentinel.  No message is built from
\* a private exponent.
C6_NoPrivateOnWire ==
    \A r \in Roles :
        LET sent == {w.frame : w \in {v \in ghost.wire : v.from = r}}
            chat == {fr \in sent : fr.kind = "encrypted_message" /\ fr # QuitFrame}
        IN /\ \A fr \in sent :
                \/ /\ fr.kind = "params"
                   /\ fr.f = <<Str(alice.p), Str(alice.g), Str(alice.bits)>>
                   /\ r \in {"alice", "eve"}
                \/ /\ fr.kind = "public_key"
                   /\ \E k \in OwnPublicKeys(r) : fr = KeyFrame(k)
                \/ fr.kind = "encrypted_message"
           /\ chat # {} => chat \subseteq OwnChatFrames(r)

C6_Witness ==
    /\ eve.pc = "done"
    /\ alice.private_key # alice.public_key /\ bob.private_key # bob.public_key
    /\ eve.private_key_alice # eve.public_key_alice
    /\ \A r \in Roles : \E w \in ghost.wire : w.from = r /\ w.frame.kind = "public_key"
    /\ \A r \in Roles : \E w \in ghost.wire : w.from = r /\ w.frame \in OwnChatFrames(r)
    /\ \E w \in ghost.wire : w.from = "eve" /\ w.frame = QuitFrame
    /\ \E w \in ghost.wire : w.from = "eve" /\ w.frame.kind = "params"


(***************************************************************************)
(* The functions of dh_params.py, each applied once to drawn arguments.    *)
(*   lookup:   get_dh_params(label)                                        *)
(*   validate: validate_params(p, g)                                       *)
(*   keygen:   generate_private_key(p, secure) for a validated (p, g)      *)
(*   modexp:   compute_public_key(g, x, p), compute_shared_secret(g, x, p) *)
(*   kdf:      derive_key(s1) and derive_key(s2)                           *)
(*   bytes:    simple_decrypt(c, k), then simple_encrypt of its result     *)
(***************************************************************************)
\* the arguments get_dh_params is called with: the ints of Alice's menu, two
\* other ints, 'weak', and two other strs ('' and 'toy')
\* bytes of a cipher-text: NUL, 'h', the two bytes of e-acute, 0xFF
CipherBytes == {0, 104, 195, 169, 255}

\* the 'encrypted_message' strings of a received frame: hex() of a byte
\* sequence, an odd number of digits, characters that are no digits
HexStrings ==
    {hex(c) : c \in SeqsUpTo(CipherBytes, 2)} \cup {<<54>>, <<122, 122>>, <<54, 56, 54>>}

Labels ==
    {PyInt(n) : n \in {0, 23, 512, 1024, 2048, 4096}}
        \cup {PyStr(WEAK_LABEL), PyStr(<<>>), PyStr(<<116, 111, 121>>)}

InitLib ==
    /\ \/ \E label \in Labels : prim = [fn |-> "lookup", pc |-> "input", label |-> label]
       \/ \E p \in (-MaxNeg)..MaxP, g \in (-MaxNeg)..MaxP :
             prim = [fn |-> "validate", pc |-> "input", p |-> p, g |-> g]
       \/ \E p \in 0..MaxP, g \in 0..MaxP, secure \in BOOLEAN, r \in 0..MaxDraw :
             prim = [fn |-> "keygen", pc |-> "input", p |-> p, g |-> g,
                     secure |-> secure, r |-> r]
       \/ \E g \in 0..MaxP, x \in 0..3, p \in (-MaxNeg)..3 :
             prim = [fn |-> "modexp", pc |-> "input", g |-> g, x |-> x, p |-> p]
       \/ \E s1 \in 0..MaxSecret, s2 \in 0..MaxSecret :
             prim = [fn |-> "kdf", pc |-> "input", s1 |-> s1, s2 |-> s2]
       \/ \E c \in SeqsUpTo(CipherBytes, MaxMsgLen),
             k \in SeqsUpTo(KeyBytes, MaxKeyLen) \ {<<>>} :
             prim = [fn |-> "bytes", pc |-> "input", c |-> c, k |-> k]
       \/ \E h \in HexStrings, k \in SeqsUpTo(KeyBytes, MaxKeyLen) \ {<<>>} :
             prim = [fn |-> "recv", pc |-> "input", hex |-> h, k |-> k]
    /\ bf = Idle /\ alice = Idle /\ bob = Idle /\ eve = Idle /\ net = Idle /\ ghost = Idle

LibLookup ==
    /\ prim.fn = "lookup" /\ prim.pc = "input"
    /\ prim' = [fn |-> "lookup", pc |-> "done", label |-> prim.label,
                 result |-> get_dh_params(prim.label)]
    /\ UNCHANGED <<bf, alice, bob, eve, net, ghost>>

LibValidate ==
    /\ prim.fn = "validate" /\ prim.pc = "input"
    /\ prim' = [fn |-> "validate", pc |-> "done", p |-> prim.p, g |-> prim.g,
                 result |-> validate_params(prim.p, prim.g)]
    /\ UNCHANGED <<bf, alice, bob, eve, net, ghost>>

LibGenerate ==
    /\ prim.fn = "keygen" /\ prim.pc = "input"
    /\ IsOk(validate_params(prim.p, prim.g))
    /\ prim' = [fn |-> "keygen", pc |-> "done", p |-> prim.p, g |-> prim.g,
                 secure |-> prim.secure, r |-> prim.r,
                 private_key |-> generate_private_key(prim.p, prim.secure, prim.r)]
    /\ UNCHANGED <<bf, alice, bob, eve, net, ghost>>

LibModExp ==
    /\ prim.fn = "modexp" /\ prim.pc = "input"
    /\ prim' = [fn |-> "modexp", pc |-> "done", g |-> prim.g, x |-> prim.x, p |-> prim.p,
                 public_key |-> compute_public_key(prim.g, prim.x, prim.p),
                 shared_secret |-> compute_shared_secret(prim.g, prim.x, prim.p)]
    /\ UNCHANGED <<bf, alice, bob, eve, net, ghost>>

\* secret_bytes is str(shared_secret).encode('utf-8'), the input of the hash
LibDerive ==
    /\ prim.fn = "kdf" /\ prim.pc = "input"
    /\ prim' = [fn |-> "kdf", pc |-> "done", s1 |-> prim.s1, s2 |-> prim.s2,
                 secret_bytes1 |-> encode_utf8(Str(prim.s1)).v,
                 secret_bytes2 |-> encode_utf8(Str(prim.s2)).v,
                 key1 |-> derive_key(prim.s1), key2 |-> derive_key(prim.s2)]
    /\ UNCHANGED <<bf, alice, bob, eve, net, ghost>>

LibDecrypt ==
    /\ prim.fn = "bytes" /\ prim.pc = "input"
    /\ prim' = [fn |-> "bytes", pc |-> "decrypted", c |-> prim.c, k |-> prim.k,
                 decrypted |-> simple_decrypt(prim.c, prim.k)]
    /\ UNCHANGED <<bf, alice, bob, eve, net, ghost>>

LibReencrypt ==
    /\ prim.fn = "bytes" /\ prim.pc = "decrypted" /\ IsOk(prim.decrypted)
    /\ prim' = [fn |-> "bytes", pc |-> "reencrypted", c |-> prim.c, k |-> prim.k,
                 decrypted |-> prim.decrypted,
                 reencrypted |-> simple_encrypt(prim.decrypted.v, prim.k)]
    /\ UNCHANGED <<bf, alice, bob, eve, net, ghost>>

\* Alice.chat, "Wait for reply", on one received frame: the plaintext is
\* printed after simple_decrypt returned; an exception prints "Error: ..."
LibChatRecv ==
    /\ prim.fn = "recv" /\ prim.pc = "input"
    /\ LET got == recv_chat(<<Frame("encrypted_message", <<prim.hex>>)>>, prim.k)
       IN prim' = [fn |-> "recv", pc |-> "done", hex |-> prim.hex, k |-> prim.k,
                    result |-> got,
                    shown |-> IF IsOk(got) THEN <<got.v>> ELSE <<>>]
    /\ UNCHANGED <<bf, alice, bob, eve, net, ghost>>

NextLib ==
    \/ LibLookup \/ LibValidate \/ LibGenerate \/ LibModExp \/ LibDerive
    \/ LibDecrypt \/ LibReencrypt \/ LibChatRecv

SpecLib == InitLib /\ [][NextLib]_vars

(***************************************************************************)
(* Properties of the library functions (SpecLib).                          *)
(***************************************************************************)
\* the labels of the four strengths: 'weak', 512, 1024, 2048
DefinedLabels == {PyStr(WEAK_LABEL), PyInt(512), PyInt(1024), PyInt(2048)}

\* C11: get_dh_params returns a (prime, generator) pair for each of the four
\* strengths (weak, 512-bit, 1024-bit, 2048-bit) and raises the
\* unknown-parameter-set error (ValueError) for every other label.
C11_CatalogLookup ==
    (prim.fn = "lookup" /\ prim.pc = "done") =>
        IF prim.label \in DefinedLabels
        THEN IsOk(prim.result) /\ Len(prim.result.v) = 2
        ELSE prim.result.t = "ValueError"

\* C12: validate_params(p, g) raises the invalid-prime error whenever p < 2,
\* raises the invalid-generator error whenever p >= 2 and (g < 2 or
\* g >= p-1), and returns True exactly when p >= 2 and 2 <= g <= p-2.
C12_ValidateParams ==
    (prim.fn = "validate" /\ prim.pc = "done") =>
        /\ prim.p < 2 => prim.result.t = "ValueError:prime"
        /\ (prim.p >= 2 /\ (prim.g < 2 \/ prim.g >= prim.p - 1)) =>
               prim.result.t = "ValueError:generator"
        /\ (prim.result.t = "ok") <=> (prim.p >= 2 /\ 2 <= prim.g /\ prim.g <= prim.p - 2)
        /\ (prim.result.t = "ok") => prim.result.v = TRUE

C12_Witness ==
    /\ prim.fn = "validate" /\ prim.pc = "done"
    /\ prim.p >= 4 /\ prim.g = prim.p - 2 /\ prim.result = Ret(TRUE)

\* C13: every pair get_dh_params returns passes validate_params (prime >= 2,
\* 2 <= generator <= prime-2); the weak set is (23, 5) and every other set
\* has generator 2.
C13_CatalogInvariant ==
    (prim.fn = "lookup" /\ prim.pc = "done" /\ IsOk(prim.result)) =>
        LET pg == prim.result.v
        IN /\ validate_params(pg[1], pg[2]).t = "ok"
           /\ pg[1] >= 2 /\ pg[2] >= 2 /\ pg[2] <= pg[1] - 2
           /\ IF prim.label = PyStr(WEAK_LABEL) THEN pg = <<23, 5>> ELSE pg[2] = 2

C13_Witness ==
    /\ prim.fn = "lookup" /\ prim.pc = "done"
    /\ prim.label = PyStr(WEAK_LABEL) /\ prim.result = Ret(<<23, 5>>)


\* C14: for every modulus p of a parameter set that passes validate_params,
\* generate_private_key(p, secure) returns a value of [1, p-2], with secure
\* (random bits reduced modulo p-2, plus 1) and without (random.randint).
C14_PrivateKeyRange ==
    (prim.fn = "keygen" /\ prim.pc = "done") =>
        (1 <= prim.private_key /\ prim.private_key <= prim.p - 2)

C14_Witness ==
    /\ prim.fn = "keygen" /\ prim.pc = "done"
    /\ prim.secure /\ prim.r > prim.p
    /\ prim.private_key = prim.p - 2 /\ prim.private_key > 1


\* C16: compute_public_key and compute_shared_secret raise the
\* invalid-modulus error whenever the prime is < 2, and return no value
\* for such a modulus.
C16_InvalidModulus ==
    (prim.fn = "modexp" /\ prim.pc = "done" /\ prim.p < 2) =>
        (~IsOk(prim.public_key) /\ ~IsOk(prim.shared_secret))

\* C18: KDF distinctness. For any two different shared secrets s1 # s2 of
\* the sample 0..MaxSecret, the byte encodings fed to the hash differ and
\* derive_key(s1) # derive_key(s2).
C18_KdfDistinct ==
    (prim.fn = "kdf" /\ prim.pc = "done" /\ prim.s1 # prim.s2) =>
        /\ prim.secret_bytes1 # prim.secret_bytes2
        /\ prim.key1 # prim.key2

C18_Witness ==
    /\ prim.fn = "kdf" /\ prim.pc = "done"
    /\ prim.s1 = 1 /\ prim.s2 = 11
    /\ prim.secret_bytes1 = <<49>> /\ prim.secret_bytes2 = <<49, 49>>
    /\ prim.key1 # prim.key2

\* C20: decryption is encryption on arbitrary bytes. For every byte
\* sequence c and every non-empty key k, simple_decrypt(c, k) succeeds, and
\* simple_encrypt of its result with k gives back c.
C20_DecryptIsEncrypt ==
    /\ (prim.fn = "bytes" /\ prim.pc = "decrypted") => IsOk(prim.decrypted)
    /\ (prim.fn = "bytes" /\ prim.pc = "reencrypted") =>
           (IsOk(prim.reencrypted) /\ prim.reencrypted.v = prim.c)

\* C21: decoding failures never yield garbled output. When the received
\* cipher-text is malformed (no hexadecimal string of whole bytes) or its XOR
\* with the role's key is not valid UTF-8, the decrypt step ends in a decode
\* error (ValueError of fromhex, UnicodeDecodeError of decode) and the role
\* displays no plaintext for that message.
C21_NoGarbledOutput ==
    (prim.fn = "recv" /\ prim.pc = "done") =>
        LET b == fromhex(prim.hex)
        IN (~IsOk(b) \/ ~IsOk(decode_utf8(XorBytes(b.v, prim.k)))) =>
               /\ prim.result.t \in {"ValueError", "UnicodeDecodeError"}
               /\ prim.shown = <<>>

C21_Witness ==
    /\ prim.fn = "recv" /\ prim.pc = "done"
    /\ prim.hex = <<102, 102>> /\ prim.k = <<0>>
    /\ prim.result.t = "UnicodeDecodeError" /\ prim.shown = <<>>

(***************************************************************************)
(* Properties of the sessions, continued.                                  *)
(***************************************************************************)
\* a key pair, once generated, is a pair of the session's (p, g)
KeyPairOk(private_key, public_key) ==
    private_key # NoneInt =>
        /\ 1 <= private_key /\ private_key <= alice.p - 2
        /\ public_key = ModExp(alice.g, private_key, alice.p)

\* the four key pairs of a session, as <<private, public>>, in a fixed order
KeyPairs(a, b, e) ==
    <<(<<a.private_key, a.public_key>>), (<<b.private_key, b.public_key>>)>>
        \o (IF e.pc = "idle" THEN <<>>
            ELSE <<(<<e.private_key_alice, e.public_key_alice>>),
                   (<<e.private_key_bob, e.public_key_bob>>)>>)

\* C15: in the direct and in the three-role session, from the moment a role
\* has generated a key pair (Alice, Bob, and Eve for each of her two), its
\* private key is in [1, p-2] and its public key is g^private mod p for the
\* session's (p, g), in every later state; and no step changes either field
\* of a generated pair.
C15_KeyPairInvariant ==
    /\ [](\A i \in 1..Len(KeyPairs(alice, bob, eve)) :
              KeyPairOk(KeyPairs(alice, bob, eve)[i][1], KeyPairs(alice, bob, eve)[i][2]))
    /\ [][\A i \in 1..Len(KeyPairs(alice, bob, eve)) :
              KeyPairs(alice, bob, eve)[i][1] # NoneInt =>
                  KeyPairs(alice', bob', eve')[i] = KeyPairs(alice, bob, eve)[i]]_vars

C15_Witness ==
    /\ eve.pc = "done" /\ alice.pc = "done" /\ bob.pc = "done"
    /\ alice.private_key = 2 /\ bob.private_key = 1
    /\ eve.private_key_alice = 1 /\ eve.private_key_bob = 2
    /\ eve.public_key_alice # eve.public_key_bob
    /\ alice.public_key = ModExp(alice.g, 2, alice.p)


\* the (shared secret, derived key) pairs the roles of a session hold
DerivedKeys ==
    {sk \in {<<alice.shared_secret, alice.aes_key>>, <<bob.shared_secret, bob.aes_key>>,
             <<eve.shared_secret_alice, eve.aes_key_alice>>,
             <<eve.shared_secret_bob, eve.aes_key_bob>>} : sk[1] # NoneInt}

Stage(pc) ==
    IF pc \in {"select_parameters", "connect", "send_parameters",
               "setup_server", "accept", "receive_parameters"} THEN 1
    ELSE IF pc = "generate_keys" THEN 2
    ELSE IF pc \in {"exchange_keys", "exchange_keys_recv"} THEN 3
    ELSE IF pc = "compute_secret" THEN 4
    ELSE IF pc \in {"first_message", "chat_recv", "chat_input"} THEN 5
    ELSE 6

\* what a role holds at its stage, and what each of its values presupposes
StepsDone(r, role, peer_public_key) ==
    /\ (Stage(r.pc) \in 2..5) => (r.p # NoneInt /\ r.g # NoneInt)
    /\ (Stage(r.pc) \in 3..5) => r.public_key # NoneInt
    /\ (Stage(r.pc) \in 4..5) => peer_public_key # NoneInt
    /\ (Stage(r.pc) = 5) => r.aes_key # NoneBytes
    /\ r.private_key # NoneInt => (r.p # NoneInt /\ r.g # NoneInt)
    /\ r.public_key # NoneInt => r.private_key # NoneInt
    /\ peer_public_key # NoneInt => r.public_key # NoneInt
    /\ r.shared_secret # NoneInt => peer_public_key # NoneInt
    /\ r.aes_key # NoneBytes => r.shared_secret # NoneInt
    /\ \A w \in ghost.wire :
          w.from = role =>
             /\ w.frame.kind = "public_key" => r.public_key # NoneInt
             /\ (w.frame.kind = "encrypted_message" /\ w.frame # QuitFrame) =>
                    r.aes_key # NoneBytes
    /\ ghost.shown[role] # <<>> => r.aes_key # NoneBytes

\* a step stays in its stage, enters the next one, or ends the run
StepInOrder(pc, pcNext) ==
    Stage(pcNext) \in {Stage(pc), Stage(pc) + 1, 6} /\ Stage(pcNext) >= Stage(pc)

\* C22: session step order. Alice and Bob, in the direct and in the
\* three-role session, go through parameters fixed, key pair generated,
\* public values exchanged, shared secret computed, key derived, cipher-text
\* exchanged, in this order: a role holds a shared secret only after it has
\* received the peer's public value, and it has sent a cipher-text or
\* displayed a decrypted one only after it has derived its key.
C22_StepOrder ==
    /\ [](StepsDone(alice, "alice", alice.bob_public_key)
            /\ StepsDone(bob, "bob", bob.alice_public_key))
    /\ [][StepInOrder(alice.pc, alice'.pc) /\ StepInOrder(bob.pc, bob'.pc)]_vars

C22_Witness ==
    /\ alice.pc = "chat_input" /\ bob.pc = "chat_recv"
    /\ alice.shared_secret # NoneInt /\ bob.shared_secret # NoneInt
    /\ ghost.shown["alice"] # <<>> /\ ghost.shown["bob"] # <<>>
    /\ \E w \in ghost.wire :
          w.from = "alice" /\ w.frame.kind = "encrypted_message" /\ w.frame # QuitFrame

\* Eve's log entries for the direction Alice->Bob, and those she forwarded
AliceToBob == SelectSeq(eve.intercepted_messages, LAMBDA m : m.direction = "Alice->Bob")

\* the entries of Alice's messages that Eve sent on
Forwarded ==
    LET both == [i \in 1..Len(eve.intercepted_messages) |->
                    [m |-> eve.intercepted_messages[i], r |-> ghost.relayed[i]]]
        kept == SelectSeq(both, LAMBDA z : z.m.direction = "Alice->Bob" /\ ~z.r.dropped)
    IN [i \in 1..Len(kept) |-> kept[i].m]

\* C23: relay of Alice's messages in the three-role session. For every
\* message from Alice that Eve has handled, the plaintext Eve recovered with
\* her Alice-side key is the message Alice entered (the stripped line; for an
\* empty first line the text the program sends in its place); the text Eve
\* forwards is that plaintext or her non-empty replacement; and every text
\* Bob decrypts with his own key is the text Eve forwarded, in order.
C23_RelayOfAlice ==
    eve.aes_key_alice # NoneBytes =>
        /\ IsPrefix([i \in 1..Len(AliceToBob) |-> AliceToBob[i].original],
                    ghost.typed["alice"])
        /\ \A i \in 1..Len(Forwarded) :
              \/ Forwarded[i].forwarded = Forwarded[i].original
              \/ Forwarded[i].forwarded \in (Edits \cup FirstEdits) \ {<<>>}
        /\ IsPrefix(ghost.shown["bob"],
                    [i \in 1..Len(Forwarded) |-> Forwarded[i].forwarded])

C23_Witness ==
    /\ Len(ghost.shown["bob"]) = 2 /\ Len(Forwarded) = 2
    /\ \E i \in 1..2 : /\ Forwarded[i].forwarded # Forwarded[i].original
                        /\ ghost.shown["bob"][i] = <<110, 111>>
    /\ \E i \in 1..2 : /\ Forwarded[i].forwarded = Forwarded[i].original
                        /\ ghost.shown["bob"][i] = ghost.typed["alice"][i]

(***************************************************************************)
(* dhke_passive_attack.py: PassiveEve.  The answers to the menu and to the *)
(* two prompts for the public values are fixed when the run starts (stdin);*)
(* the cipher-text lines are drawn as they are read.                       *)
(***************************************************************************)
MaxToyExp == 3

MaxCaptured == 2

\* the search with the generator and the target exchanged
brute_force_discrete_log_exchanged(g, public_key, p) ==
    brute_force_call(public_key, g, p, {})

\* for x in range(1, p): if pow(g, x, p) == public_key: return x
brute_force_discrete_log(g, public_key, p) == brute_force_call(g, public_key, p, {})

\* bits_map.get(choice, 23)
passive_bits_map_get(choice) ==
    IF choice = 2 THEN 512 ELSE IF choice = 3 THEN 1024
    ELSE IF choice = 4 THEN 2048 ELSE 23

\* the public values g^x mod p of a session on the toy set, x in 1..MaxToyExp
ToyPublicValues == {ModExp(5, x, PRIME_WEAK) : x \in 1..MaxToyExp}

\* the lines typed for A and B: a toy public value, or 'x'
PublicKeyLines == {Str(n) : n \in ToyPublicValues} \cup {<<120>>}

\* the lines typed for the cipher-texts: 'done', 'Done ', nothing, '68', 'ff', 'zz'
CiphertextLines ==
    {<<100, 111, 110, 101>>, <<68, 111, 110, 101, 32>>, <<>>,
     <<54, 56>>, <<102, 102>>, <<122, 122>>}

InitPassiveEve ==
    \E choice \in Choices, a \in PublicKeyLines, b \in PublicKeyLines :
        eve = [pc |-> "sniff_parameters",
               stdin |-> [choice |-> choice, alice_pub_input |-> a, bob_pub_input |-> b],
               bits |-> NoneInt, p |-> NoneInt, g |-> NoneInt,
               alice_public_key |-> NoneInt, bob_public_key |-> NoneInt,
               captured_messages |-> <<>>, alice_private_key |-> NoneInt,
               bob_private_key |-> NoneInt, shared_secret |-> NoneInt,
               aes_key |-> NoneBytes, plaintexts |-> <<>>, outcome |-> ""]

\* sniff_traffic, step 1; an exception ends run() in its handler
PE_sniff_parameters ==
    /\ eve.pc = "sniff_parameters"
    /\ LET bits == passive_bits_map_get(eve.stdin.choice)
           pg == get_dh_params(PyInt(bits))
       IN IF IsOk(pg)
          THEN eve' = [eve EXCEPT !.bits = bits, !.p = pg.v[1], !.g = pg.v[2],
                                  !.pc = "sniff_alice_key"]
          ELSE eve' = [eve EXCEPT !.bits = bits, !.outcome = "Error", !.pc = "done"]
    /\ UNCHANGED <<prim, bf, alice, bob, net, ghost>>

\* step 2: int(alice_pub_input), or sys.exit(1)
PE_sniff_alice_key ==
    /\ eve.pc = "sniff_alice_key"
    /\ LET A == ParseInt(strip(eve.stdin.alice_pub_input))
       IN IF IsOk(A)
          THEN eve' = [eve EXCEPT !.alice_public_key = A.v, !.pc = "sniff_bob_key"]
          ELSE eve' = [eve EXCEPT !.pc = "exit"]
    /\ UNCHANGED <<prim, bf, alice, bob, net, ghost>>

\* step 3: int(bob_pub_input), or sys.exit(1)
PE_sniff_bob_key ==
    /\ eve.pc = "sniff_bob_key"
    /\ LET B == ParseInt(strip(eve.stdin.bob_pub_input))
       IN IF IsOk(B)
          THEN eve' = [eve EXCEPT !.bob_public_key = B.v, !.pc = "sniff_ciphertext"]
          ELSE eve' = [eve EXCEPT !.pc = "exit"]
    /\ UNCHANGED <<prim, bf, alice, bob, net, ghost>>

\* step 4: one line of the loop
PE_sniff_ciphertext ==
    /\ eve.pc = "sniff_ciphertext"
    /\ \E line \in CiphertextLines :
         LET ciphertext == strip(line)
         IN IF lower(ciphertext) = <<100, 111, 110, 101>>
            THEN eve' = [eve EXCEPT !.pc = "attempt_break"]
            ELSE IF ciphertext # <<>>
            THEN /\ Len(eve.captured_messages) < MaxCaptured
                 /\ eve' = [eve EXCEPT !.captured_messages = Append(@, ciphertext)]
            ELSE eve' = eve
    /\ UNCHANGED <<prim, bf, alice, bob, net, ghost>>

\* decrypt_messages: the plaintexts printed, in order; a failure prints none
RECURSIVE decrypt_messages(_, _)
decrypt_messages(captured_messages, aes_key) ==
    IF captured_messages = <<>> THEN <<>>
    ELSE LET encrypted_bytes == fromhex(Head(captured_messages))
             plaintext == IF IsOk(encrypted_bytes)
                          THEN simple_decrypt(encrypted_bytes.v, aes_key)
                          ELSE encrypted_bytes
         IN (IF IsOk(plaintext) THEN <<plaintext.v>> ELSE <<>>)
                \o decrypt_messages(Tail(captured_messages), aes_key)

\* attempt_break, and decrypt_messages when it returned True
PE_attempt_break ==
    /\ eve.pc = "attempt_break"
    /\ IF eve.bits # 23
       THEN eve' = [eve EXCEPT !.pc = "show_summary"]
       ELSE LET found == brute_force_discrete_log(eve.g, eve.alice_public_key, eve.p)
            IN IF ~IsOk(found) \/ found.v = 0
               THEN eve' = [eve EXCEPT !.pc = "show_summary"]
               ELSE LET secret == compute_shared_secret(eve.bob_public_key, found.v, eve.p).v
                        key == derive_key(secret)
                    IN eve' = [eve EXCEPT !.alice_private_key = found.v,
                                          !.shared_secret = secret, !.aes_key = key,
                                          !.plaintexts =
                                              decrypt_messages(eve.captured_messages, key),
                                          !.pc = "show_summary"]
    /\ UNCHANGED <<prim, bf, alice, bob, net, ghost>>

PE_show_summary ==
    /\ eve.pc = "show_summary"
    /\ eve' = [eve EXCEPT !.outcome = IF eve.alice_private_key # NoneInt
                                      THEN "ATTACK SUCCESSFUL" ELSE "ATTACK FAILED",
                          !.pc = "done"]
    /\ UNCHANGED <<prim, bf, alice, bob, net, ghost>>

InitPassive ==
    /\ InitPassiveEve
    /\ prim = Idle /\ bf = Idle /\ alice = Idle /\ bob = Idle /\ net = Idle /\ ghost = Idle

NextPassive ==
    \/ PE_sniff_parameters \/ PE_sniff_alice_key \/ PE_sniff_bob_key
    \/ PE_sniff_ciphertext \/ PE_attempt_break \/ PE_show_summary

SpecPassive == InitPassive /\ [][NextPassive]_vars

\* C24: passive attack on the toy set. When PassiveEve's menu answer is the
\* weak (23-bit) option and the lines typed for A and B are the public values
\* 5^a mod 23 and 5^b mod 23 of a toy session, run() ends with a recovered
\* private exponent and with aes_key equal to the key of that session,
\* derive_key(5^(a*b) mod 23).
C24_PassiveToyAttack ==
    (eve.pc \in {"done", "exit"} /\ eve.stdin.choice = 1) =>
        \A a \in 1..MaxToyExp, b \in 1..MaxToyExp :
            (/\ eve.stdin.alice_pub_input = Str(ModExp(5, a, PRIME_WEAK))
             /\ eve.stdin.bob_pub_input = Str(ModExp(5, b, PRIME_WEAK))) =>
                /\ eve.alice_private_key # NoneInt
                /\ eve.aes_key = derive_key(ModExp(5, a * b, PRIME_WEAK))

(***************************************************************************)
(* Blocking in the chat loops.                                             *)
(***************************************************************************)
\* recv_msg on the stream c does not return: no complete message is queued
\* and the peer has not closed its end
WaitsOn(c, peer) == ~CanRecvMsg(c, peer)

\* nothing is in flight on the streams cs
NothingInFlight(cs) == \A c \in cs : net.q[c] = <<>>

\* C25: the direct chat never deadlocks. In a dhke_secure session, whatever
\* the users type (empty lines included), Alice and Bob are never both in the
\* receive of their chat loops with no message in flight in either direction
\* and the connection open at both ends.
C25_DirectNoDeadlock ==
    ~ /\ alice.pc = "chat_recv" /\ WaitsOn("b2a", "bob")
      /\ bob.pc = "chat_recv" /\ WaitsOn("a2b", "alice")
      /\ NothingInFlight({"a2b", "b2a"})
      /\ net.closed \cap {"alice", "bob"} = {}

\* Eve is in a receive of her interception loop that does not return
EveWaits ==
    \/ eve.pc = "loop_bob" /\ WaitsOn("b2e", "bob")
    \/ eve.pc = "loop_alice" /\ WaitsOn("a2e", "alice")

\* C26: the three-role chat never deadlocks. Whatever the users type and
\* whatever Eve chooses (forward, modify, drop, empty lines), Alice, Bob and
\* Eve are never all three in a receive of their chat loops with no message
\* in flight on any stream and all connections open.
C26_MitmNoDeadlock ==
    ~ /\ alice.pc = "chat_recv" /\ WaitsOn("e2a", "eve")
      /\ bob.pc = "chat_recv" /\ WaitsOn("e2b", "eve")
      /\ EveWaits
      /\ NothingInFlight({"a2e", "e2a", "e2b", "b2e"})
      /\ net.closed \cap {"alice", "bob", "eve"} = {}

\* the last thing Eve did in her loop was to drop a message of Alice
JustDropped ==
    LET log == eve.intercepted_messages
    IN /\ log # <<>>
       /\ log[Len(log)].direction = "Alice->Bob"
       /\ log[Len(log)].forwarded = DROPPED

\* C27: after Eve has dropped a message from Alice, the next message she
\* waits for is Alice's next message: she is at the receive from Alice, not
\* at the receive of a reply from Bob.
C27_DropWaitsForAlice ==
    (JustDropped /\ eve.pc \in {"loop_bob", "loop_alice"}) => eve.pc = "loop_alice"

(***************************************************************************)
(* Progress.  Each role is a process of its own: a step of its program     *)
(* that needs no line from the console is eventually taken once it can be  *)
(* (a blocked receive returns when data or the end of the stream arrives). *)
(* Nothing is assumed about when, or whether, a user answers a prompt, nor *)
(* about a receive in a chat loop that returns a cipher-text: of these     *)
(* receives only the outcomes QUIT and end of stream are required.         *)
(***************************************************************************)
\* the next recv_msg on the stream c returns QUIT, or None at the end of the stream
ChatEnds(c) == IF net.q[c] = <<>> THEN TRUE ELSE net.q[c][1] = QuitFrame

AliceRuns ==
    \/ /\ eve.pc = "idle"
       /\ \/ SA_connect \/ SA_send_parameters \/ SA_generate_keys \/ SA_exchange_keys_send
          \/ SA_exchange_keys_recv \/ SA_compute_secret \/ SA_close
          \/ (ChatEnds("b2a") /\ SA_chat_recv)
    \/ /\ eve.pc # "idle"
       /\ \/ MA_connect \/ MA_send_parameters \/ MA_generate_keys \/ MA_exchange_keys_send
          \/ MA_exchange_keys_recv \/ MA_compute_secret \/ MA_close
          \/ (ChatEnds("e2a") /\ MA_chat_recv)

BobRuns ==
    \/ /\ eve.pc = "idle"
       /\ \/ SB_setup_server \/ SB_accept \/ SB_receive_parameters \/ SB_generate_keys
          \/ SB_exchange_keys \/ SB_compute_secret \/ SB_close
          \/ (ChatEnds("a2b") /\ SB_chat_recv)
    \/ /\ eve.pc # "idle"
       /\ \/ MB_setup_server \/ MB_accept \/ MB_receive_parameters \/ MB_generate_keys
          \/ MB_exchange_keys \/ MB_compute_secret \/ MB_close
          \/ (ChatEnds("e2b") /\ MB_chat_recv)

EveRuns ==
    /\ eve.pc # "idle"
    /\ \/ ME_listen \/ ME_connect_bob \/ ME_accept \/ ME_intercept_parameters
       \/ ME_generate_keys \/ ME_intercept_alice_key \/ ME_intercept_bob_key
       \/ ME_compute_secrets \/ ME_analysis \/ ME_close
       \/ (ChatEnds("b2e") /\ ME_loop_bob) \/ (ChatEnds("a2e") /\ ME_loop_alice)

SpecSessionsFair ==
    SpecSessions /\ WF_vars(AliceRuns) /\ WF_vars(BobRuns) /\ WF_vars(EveRuns)

\* the role r has put the QUIT sentinel on the transport
QuitSentBy(r) == [from |-> r, frame |-> QuitFrame] \in ghost.wire

\* every QUIT put on the stream c has been read
QuitRead(c) == \A i \in 1..Len(net.q[c]) : net.q[c][i] # QuitFrame

\* the role has left its loop, has ended and has closed its sockets
Terminated(r, pc) == pc = "done" /\ r \in net.closed

\* the QUIT of Alice has reached every other role of the session
QuitOfAliceReached ==
    IF eve.pc = "idle" THEN QuitRead("a2b") /\ Terminated("bob", bob.pc)
    ELSE /\ QuitRead("a2e") /\ Terminated("eve", eve.pc)
         /\ QuitSentBy("eve") /\ QuitRead("e2b") /\ Terminated("bob", bob.pc)

\* the QUIT of Bob has reached every other role of the session
QuitOfBobReached ==
    IF eve.pc = "idle" THEN QuitRead("b2a") /\ Terminated("alice", alice.pc)
    ELSE /\ QuitRead("b2e") /\ Terminated("eve", eve.pc)
         /\ QuitSentBy("eve") /\ QuitRead("e2a") /\ Terminated("alice", alice.pc)

\* C28: QUIT propagation. In the direct and in the three-role session, once
\* a role has sent the QUIT sentinel, every other role of the session
\* eventually has received QUIT (from Eve's relay in the three-role case),
\* has left its chat loop and has terminated with its sockets closed.
C28_QuitPropagation ==
    /\ QuitSentBy("alice") ~> QuitOfAliceReached
    /\ QuitSentBy("bob") ~> QuitOfBobReached

C28_Witness ==
    /\ eve.pc = "done" /\ QuitSentBy("alice") /\ QuitOfAliceReached

(***************************************************************************)
(* Eve's final step on its own: the report and the brute force, for the    *)
(* parameters and public values she may hold when her loop has ended       *)
(* (they come from the messages she intercepted, whoever sent them).       *)
(***************************************************************************)
\* (bits, p, g) as announced in a parameters message
InterceptedParams == {<<23, PRIME_WEAK, 5>>, <<1024, PRIME_1024, GENERATOR>>,
                      <<2048, PRIME_2048, GENERATOR>>}

\* Eve after her loop: both handshakes done with her exponents e1 and e2
InitEveReport ==
    /\ \E ps \in InterceptedParams :
         \E A \in 0..(ps[2] - 1), B \in 1..(ps[2] - 1), e1 \in 1..2, e2 \in 1..2 :
            eve = [InitEve EXCEPT
                      !.pc = "analysis", !.bits = ps[1], !.p = ps[2], !.g = ps[3],
                      !.alice_public_key = A, !.bob_public_key = B,
                      !.private_key_alice = e1, !.private_key_bob = e2,
                      !.public_key_alice = compute_public_key(ps[3], e1, ps[2]).v,
                      !.public_key_bob = compute_public_key(ps[3], e2, ps[2]).v,
                      !.shared_secret_alice = compute_shared_secret(A, e1, ps[2]).v,
                      !.shared_secret_bob = compute_shared_secret(B, e2, ps[2]).v,
                      !.aes_key_alice = derive_key(compute_shared_secret(A, e1, ps[2]).v),
                      !.aes_key_bob = derive_key(compute_shared_secret(B, e2, ps[2]).v)]
    /\ net = [InitNet EXCEPT !.closed = {"alice", "bob"}]
    /\ prim = Idle /\ bf = Idle /\ alice = Idle /\ bob = Idle /\ ghost = Idle

NextEveReport == ME_analysis \/ ME_close

SpecEveReport == InitEveReport /\ [][NextEveReport]_vars

\* C29: Eve's brute force after the session. When the intercepted parameters
\* have at most 23 bits and the intercepted A has a discrete logarithm to the
\* base g modulo p, Eve's final step ends with a reported exponent x such
\* that g^x mod p = A (found among the first 2^25 candidates).
C29_EveBruteForce ==
    (/\ eve.pc \in {"close", "done", "error"} /\ eve.bits <= 23
     /\ \E x \in 1..(eve.p - 1) : ModExp(eve.g, x, eve.p) = eve.alice_public_key) =>
        /\ eve.found \in 1..(eve.p - 1)
        /\ ModExp(eve.g, eve.found, eve.p) = eve.alice_public_key

\* C30: the four strengths of Alice's menu. Once Alice has answered the menu
\* of select_parameters (of dhke_secure or of dhke_mitm) with one of 23, 512,
\* 1024 or 2048 bits, (p, g) is set to the catalog pair of that strength and
\* her run goes on to the connection.
C30_MenuStrengths ==
    alice.bits \in {23, 512, 1024, 2048} =>
        /\ alice.p # NoneInt /\ alice.g # NoneInt
        /\ alice.bits = 23 => (alice.p = PRIME_WEAK /\ alice.g = 5)
        /\ alice.bits = 1024 => (alice.p = PRIME_1024 /\ alice.g = GENERATOR)
        /\ alice.bits = 2048 => (alice.p = PRIME_2048 /\ alice.g = GENERATOR)

(***************************************************************************)
(* Key substitution and parameter relay in the three-role session.         *)
(***************************************************************************)
AliceHasPeerKey == alice.pc \in {"compute_secret", "first_message", "chat_recv",
                                 "chat_input", "close", "done"}

BobHasPeerKey == bob.pc \in {"compute_secret", "first_message", "chat_recv",
                             "chat_input", "close", "done"}

EveKeyFrames(c) == {net.q[c][i] : i \in {n \in 1..Len(net.q[c]) : net.q[c][n].kind = "public_key"}}

\* C31: in a MITM session the public value Alice receives as
\* Bob's is Eve's E1 = g^e1 mod p and the public value Bob receives as
\* Alice's is Eve's E2 = g^e2 mod p; every public-key message Eve sends is
\* built from her own exponent (E1 towards Alice, E2 towards Bob), never
\* from the key she received.  (As numbers E2 and A can coincide when the
\* two exponents give the same power; what is sent is still Eve's value.)
C31_KeySubstitution ==
    /\ AliceHasPeerKey =>
          /\ alice.bob_public_key = eve.public_key_alice
          /\ alice.bob_public_key = ModExp(eve.g, eve.private_key_alice, eve.p)
    /\ BobHasPeerKey =>
          /\ bob.alice_public_key = eve.public_key_bob
          /\ bob.alice_public_key = ModExp(eve.g, eve.private_key_bob, eve.p)
    /\ EveKeyFrames("e2a") \subseteq {KeyFrame(eve.public_key_alice)}
    /\ EveKeyFrames("e2b") \subseteq {KeyFrame(eve.public_key_bob)}
    /\ \A w \in ghost.wire :
          w.from = "eve" /\ w.frame.kind = "public_key" =>
              w.frame \in {KeyFrame(eve.public_key_alice), KeyFrame(eve.public_key_bob)}

\* both victims hold Eve's values, which differ from the real ones
C31_Witness ==
    /\ AliceHasPeerKey /\ BobHasPeerKey
    /\ alice.bob_public_key = eve.public_key_alice
    /\ bob.alice_public_key = eve.public_key_bob
    /\ alice.bob_public_key # bob.public_key
    /\ bob.alice_public_key # alice.public_key

BobHasParams == bob.pc \in {"generate_keys", "exchange_keys", "compute_secret",
                            "first_message", "chat_recv", "chat_input", "close", "done"}

EveHasKeys == eve.pc \in {"intercept_alice_key", "intercept_bob_key", "compute_secrets",
                          "first_message", "loop_bob", "loop_alice", "analysis",
                          "close", "done"}

\* C32: Eve relays the domain parameters unchanged: the (p, g, bits) Bob
\* adopts are exactly the (p, g, bits) Alice sent, the parameter message Eve
\* sends carries the fields of Alice's, and both of Eve's key pairs are
\* computed with the same p and g.
C32_ParametersRelayed ==
    /\ BobHasParams =>
          /\ <<bob.p, bob.g, bob.bits>> = <<alice.p, alice.g, alice.bits>>
          /\ ParamsFrame(alice.p, alice.g, alice.bits) \in
                 {w.frame : w \in {v \in ghost.wire : v.from = "alice"}}
    /\ \A w \in ghost.wire :
          w.from = "eve" /\ w.frame.kind = "params" =>
              w.frame.f = ParamsFrame(alice.p, alice.g, alice.bits).f
    /\ EveHasKeys =>
          /\ <<eve.p, eve.g, eve.bits>> = <<alice.p, alice.g, alice.bits>>
          /\ eve.public_key_alice = ModExp(alice.g, eve.private_key_alice, alice.p)
          /\ eve.public_key_bob = ModExp(alice.g, eve.private_key_bob, alice.p)

\* Bob has adopted the relayed parameters and Eve holds both key pairs
C32_Witness ==
    /\ BobHasPeerKey /\ EveHasKeys
    /\ <<bob.p, bob.g, bob.bits>> = <<alice.p, alice.g, alice.bits>>
    /\ bob.public_key = ModExp(alice.g, bob.private_key, alice.p)
    /\ eve.private_key_alice # eve.private_key_bob

(***************************************************************************)
(* Relay of Bob's replies.                                                 *)
(***************************************************************************)
BobToAlice == SelectSeq(eve.intercepted_messages, LAMBDA m : m.direction = "Bob->Alice")

\* C33: Bob's replies pass Eve unmodified.  The replies Eve has logged are
\* the messages Bob entered, in order, each with forwarded = original, and
\* every text Alice displays is the reply Bob entered at that position.
C33_RepliesUnmodified ==
    eve.aes_key_bob # NoneBytes =>
        /\ IsPrefix([i \in 1..Len(BobToAlice) |-> BobToAlice[i].original],
                    ghost.typed["bob"])
        /\ \A i \in 1..Len(BobToAlice) : BobToAlice[i].forwarded = BobToAlice[i].original
        /\ IsPrefix(ghost.shown["alice"],
                    [i \in 1..Len(BobToAlice) |-> BobToAlice[i].forwarded])
        /\ IsPrefix(ghost.shown["alice"], ghost.typed["bob"])

\* Alice has displayed two different replies of Bob, both logged by Eve
C33_Witness ==
    /\ Len(ghost.shown["alice"]) = 2 /\ Len(BobToAlice) = 2
    /\ ghost.shown["alice"][1] # ghost.shown["alice"][2]
    /\ ghost.shown["alice"] = ghost.typed["bob"]

(***************************************************************************)
(* The two adversaries that search for an exponent: PassiveEve, from her   *)
(* menu on, and Eve of the three-role session, from her report on.         *)
(***************************************************************************)
IsPassiveEve == "stdin" \in DOMAIN eve

InitAdversaries == InitPassive \/ InitEveReport

NextAdversaries ==
    \/ IsPassiveEve /\ NextPassive
    \/ ~IsPassiveEve /\ NextEveReport

SpecAdversaries == InitAdversaries /\ [][NextAdversaries]_vars

C34_SearchStarted == ~IsPassiveEve /\ eve.bits <= 23 /\ eve.pc = "error"

(***************************************************************************)
(* recv_msg on a byte stream.  The sender writes lines (a text and a       *)
(* newline) and may close; the transport hands the bytes over in pieces of *)
(* any size; the receiver calls recv_msg again and again until it returns  *)
(* None.  net.inflight are the bytes sent and not yet readable,            *)
(* net.arrived the bytes readable at the receiver.                         *)
(***************************************************************************)
MaxSent == 2

\* the texts sent: '{}', '[]', '{} ', ' {}' and e-acute in quotes
PayloadTexts == {<<123, 125>>, <<91, 93>>, <<123, 125, 32>>, <<32, 123, 125>>,
                 <<34, 195, 169, 34>>}

\* sock.recv(n) on readable bytes: at least one byte, at most n
sock_recv(arrived, n) ==
    {SubSeq(arrived, 1, k) : k \in 1..(IF Len(arrived) < n THEN Len(arrived) ELSE n)}

InitRecv ==
    /\ alice = [pc |-> "send", sent |-> <<>>]
    /\ bob = [pc |-> "recv_msg", data |-> <<>>, returned |-> <<>>]
    /\ net = [inflight |-> <<>>, arrived |-> <<>>, closed |-> FALSE]
    /\ prim = Idle /\ bf = Idle /\ eve = Idle /\ ghost = Idle

\* sock.send((text + '\n').encode())
RS_send ==
    /\ alice.pc = "send" /\ Len(alice.sent) < MaxSent
    /\ \E text \in PayloadTexts :
         /\ alice' = [alice EXCEPT !.sent = Append(@, text)]
         /\ net' = [net EXCEPT !.inflight = @ \o text \o <<10>>]
    /\ UNCHANGED <<prim, bf, bob, eve, ghost>>

\* sock.close()
RS_close ==
    /\ alice.pc = "send"
    /\ alice' = [alice EXCEPT !.pc = "done"]
    /\ net' = [net EXCEPT !.closed = TRUE]
    /\ UNCHANGED <<prim, bf, bob, eve, ghost>>

\* the transport makes the next k bytes readable
RS_deliver ==
    /\ \E k \in 1..Len(net.inflight) :
         net' = [net EXCEPT !.arrived = @ \o SubSeq(net.inflight, 1, k),
                            !.inflight = SubSeq(@, k + 1, Len(@))]
    /\ UNCHANGED <<prim, bf, alice, bob, eve, ghost>>

\* the same loop with sock.recv(2)
recv_msg_step_two ==
    /\ bob.pc = "recv_msg"
    /\ IF net.arrived = <<>>
       THEN /\ net.closed /\ net.inflight = <<>>
            /\ bob' = [bob EXCEPT !.returned = Append(@, None), !.pc = "eof"]
            /\ net' = net
       ELSE \E chunk \in sock_recv(net.arrived, 2) :
              LET data == bob.data \o chunk
                  text == decode_utf8(data)
              IN /\ net' = [net EXCEPT !.arrived = SubSeq(@, Len(chunk) + 1, Len(@))]
                 /\ IF chunk = <<10>>
                    THEN bob' = [bob EXCEPT !.data = <<>>,
                                    !.returned = Append(@, IF IsOk(text)
                                                           THEN Ret(strip(text.v))
                                                           ELSE text)]
                    ELSE bob' = [bob EXCEPT !.data = data]
    /\ UNCHANGED <<prim, bf, alice, eve, ghost>>

\* one turn of the loop of recv_msg: chunk = sock.recv(1); no chunk (end of
\* stream) returns None; else data += chunk, and a newline returns
\* data.decode().strip(); the caller then calls recv_msg again
recv_msg_step ==
    /\ bob.pc = "recv_msg"
    /\ IF net.arrived = <<>>
       THEN /\ net.closed /\ net.inflight = <<>>
            /\ bob' = [bob EXCEPT !.returned = Append(@, None), !.pc = "eof"]
            /\ net' = net
       ELSE \E chunk \in sock_recv(net.arrived, 1) :
              LET data == bob.data \o chunk
                  text == decode_utf8(data)
              IN /\ net' = [net EXCEPT !.arrived = SubSeq(@, Len(chunk) + 1, Len(@))]
                 /\ IF chunk = <<10>>
                    THEN bob' = [bob EXCEPT !.data = <<>>,
                                    !.returned = Append(@, IF IsOk(text)
                                                           THEN Ret(strip(text.v))
                                                           ELSE text)]
                    ELSE bob' = [bob EXCEPT !.data = data]
    /\ UNCHANGED <<prim, bf, alice, eve, ghost>>

NextRecv == RS_send \/ RS_close \/ RS_deliver \/ recv_msg_step

SpecRecv == InitRecv /\ [][NextRecv]_vars

\* the lines sent from the (k+1)-th on, as bytes
LinesFrom(sent, k) ==
    Flatten([j \in 1..(Len(sent) - k) |-> sent[k + j] \o <<10>>])

\* the calls of recv_msg that returned a text
Received == SelectSeq(bob.returned, LAMBDA r : r.t # "None")

\* C35: recv_msg receives one complete message.  The i-th call that returns
\* a text returns the i-th line sent, decoded and stripped, however the
\* bytes were handed over; between two calls the bytes not yet consumed are
\* exactly the lines sent after the ones returned (nothing beyond a newline
\* is consumed); and recv_msg returns None only at the end of a closed
\* stream, all complete lines having been returned before.
C35_OneCompleteMessage ==
    /\ Len(Received) <= Len(alice.sent)
    /\ \A i \in 1..Len(Received) :
          /\ bob.returned[i] = Received[i]
          /\ Received[i] = Ret(strip(decode_utf8(alice.sent[i]).v))
    /\ 10 \notin {bob.data[i] : i \in 1..Len(bob.data)}
    /\ bob.data \o net.arrived \o net.inflight = LinesFrom(alice.sent, Len(Received))
    /\ Len(bob.returned) > Len(Received) =>
          /\ Len(bob.returned) = Len(Received) + 1 /\ bob.pc = "eof"
          /\ net.closed /\ Len(Received) = Len(alice.sent)

\* two lines, the first with a trailing blank and the second not ASCII, were
\* returned one by one, and then None
C35_Witness ==
    /\ Len(alice.sent) = 2 /\ Len(Received) = 2 /\ bob.pc = "eof"
    /\ alice.sent[1] = <<123, 125, 32>> /\ Received[1].v = <<123, 125>>
    /\ Received[2].v = <<34, 233, 34>>

(***************************************************************************)
(* The handshake receives of the three-role session.                       *)
(***************************************************************************)
\* C36: in the three-role session each handshake receive made with a raw
\* sock.recv (Bob's and Eve's receives of the parameters and of a public
\* key, Alice's receive of the peer key) yields exactly one complete JSON
\* message, however the bytes between two sends are split or joined: none
\* of these receives ends in an exception.
C36_HandshakeReceives ==
    [][/\ alice.pc = "exchange_keys_recv" => alice'.pc # "error"
       /\ bob.pc \in {"receive_parameters", "exchange_keys"} => bob'.pc # "error"
       /\ eve.pc \in {"intercept_parameters", "intercept_alice_key", "intercept_bob_key"}
              => eve'.pc # "error"]_vars

(***************************************************************************)
(* Eve's log and the counts of her report.                                 *)
(***************************************************************************)
\* C37: Eve's interception log is complete and exact.  When the report has
\* been made, intercepted_messages has one entry for every message Eve
\* received, in the order of receipt and with the text the sender entered as
\* its original; an entry is counted as dropped only if Eve sent nothing on
\* for it, and as modified only if the text she sent on differs from the
\* original; the two counts of the report are the numbers of such entries.
C37_LogExact ==
    eve.pc \in {"close", "done"} =>
        LET log == eve.intercepted_messages
        IN /\ Len(log) = Len(ghost.relayed)
           /\ IsPrefix([i \in 1..Len(AliceToBob) |-> AliceToBob[i].original],
                       ghost.typed["alice"])
           /\ IsPrefix([i \in 1..Len(BobToAlice) |-> BobToAlice[i].original],
                       ghost.typed["bob"])
           /\ \A i \in 1..Len(log) :
                 /\ counted_as(log[i]) = "dropped" => ghost.relayed[i].dropped
                 /\ counted_as(log[i]) = "modified" =>
                        ~ghost.relayed[i].dropped /\ ghost.relayed[i].text # log[i].original
           /\ eve.dropped_count =
                 Cardinality({i \in 1..Len(log) : ghost.relayed[i].dropped})
           /\ eve.modified_count =
                 Cardinality({i \in 1..Len(log) : /\ ~ghost.relayed[i].dropped
                                                  /\ ghost.relayed[i].text # log[i].original})

(***************************************************************************)
(* The passive break as a computation: a session (p, g, a, b) publishes    *)
(* A and B, the exponent of A is searched, and the secret is computed from *)
(* B with the exponent found, with Alice's exponent and, by Bob, from A.   *)
(***************************************************************************)
MaxToyPrime == 13

ToyPrimes == {p \in 2..MaxToyPrime : \A d \in 2..(p - 1) : p % d # 0}

InitBreak ==
    /\ \E p \in ToyPrimes, g \in 2..(MaxToyPrime - 2), a \in 1..(MaxToyPrime - 2),
          b \in 1..(MaxToyPrime - 2) :
          /\ g <= p - 2 /\ a <= p - 2 /\ b <= p - 2
          /\ prim = [fn |-> "break", pc |-> "input", p |-> p, g |-> g, a |-> a, b |-> b]
    /\ bf = Idle /\ alice = Idle /\ bob = Idle /\ eve = Idle /\ net = Idle /\ ghost = Idle

\* A = g^a mod p and B = g^b mod p
BreakPublish ==
    /\ prim.fn = "break" /\ prim.pc = "input"
    /\ prim' = [fn |-> "break", pc |-> "published", p |-> prim.p, g |-> prim.g,
                 a |-> prim.a, b |-> prim.b,
                 A |-> compute_public_key(prim.g, prim.a, prim.p).v,
                 B |-> compute_public_key(prim.g, prim.b, prim.p).v]
    /\ UNCHANGED <<bf, alice, bob, eve, net, ghost>>

\* x = brute_force_discrete_log(g, A, p)
BreakSearch ==
    /\ prim.fn = "break" /\ prim.pc = "published"
    /\ prim' = [fn |-> "break", pc |-> "searched", p |-> prim.p, g |-> prim.g,
                 a |-> prim.a, b |-> prim.b, A |-> prim.A, B |-> prim.B,
                 x |-> brute_force_discrete_log(prim.g, prim.A, prim.p)]
    /\ UNCHANGED <<bf, alice, bob, eve, net, ghost>>

\* compute_shared_secret(B, x, p), (B, a, p) and (A, b, p)
BreakSecret ==
    /\ prim.fn = "break" /\ prim.pc = "searched"
    /\ prim' = [fn |-> "break", pc |-> "done", p |-> prim.p, g |-> prim.g,
                 a |-> prim.a, b |-> prim.b, A |-> prim.A, B |-> prim.B, x |-> prim.x,
                 eve_secret |-> IF IsOk(prim.x)
                                THEN compute_shared_secret(prim.B, prim.x.v, prim.p)
                                ELSE prim.x,
                 alice_secret |-> compute_shared_secret(prim.B, prim.a, prim.p),
                 bob_secret |-> compute_shared_secret(prim.A, prim.b, prim.p)]
    /\ UNCHANGED <<bf, alice, bob, eve, net, ghost>>

NextBreak == BreakPublish \/ BreakSearch \/ BreakSecret

SpecBreak == InitBreak /\ [][NextBreak]_vars

\* C38: a brute-forced exponent yields the victims' real secret.  For every
\* prime p up to the bound, every g in [2, p-2] and all a, b in [1, p-2],
\* the search for the exponent of g^a mod p returns some x, and
\* compute_shared_secret(g^b mod p, x, p) is the secret Alice computes with
\* her own exponent a (and the one Bob computes), whether or not x = a.
C38_FoundExponentGivesSecret ==
    /\ prim.pc \in {"searched", "done"} =>
          /\ IsOk(prim.x) /\ prim.x.v \in 1..prim.a
          /\ ModExp(prim.g, prim.x.v, prim.p) = prim.A
    /\ prim.pc = "done" =>
          /\ IsOk(prim.eve_secret)
          /\ prim.eve_secret = prim.alice_secret
          /\ prim.eve_secret = prim.bob_secret

\* the exponent found is not Alice's, g is no primitive root, and the
\* secret is not 1
C38_Witness ==
    /\ prim.pc = "done" /\ prim.x.v # prim.a
    /\ \E y \in 1..(prim.p - 2) : ModExp(prim.g, y, prim.p) = 1
    /\ prim.eve_secret = prim.alice_secret /\ prim.eve_secret.v > 1
====
